---- MODULE Spec2Model ----
(***************************************************************************)
(* Four-player Junqi: board topology, move legality, combat resolution,    *)
(* the AI piece memory and the minimax search, as state machines.          *)
(* A position is <<x, y>> with x the row and y the column, as in           *)
(* types.ts (Position.x indexes board rows).                               *)
(***************************************************************************)
EXTENDS Integers, Sequences, FiniteSets, TLC

VARIABLES
    board,       \* (BoardNode | null)[][] : the occupant of every existing cell
    memories,    \* AIMemory.memories : piece id -> PieceMemory
    battle,      \* the engagement handed to resolveCombat and what it returned
    call,        \* the last AIMemory method called and its arguments
    node,        \* the search node: seat to act, root seat, remaining depth, ply, window
    sim,         \* the last simulated move, its mover and the board it was made on
    scores,      \* minimax's score of the last root move, with and without cut-offs
    game         \* the game loop: gameStatus, currentPlayer, deadPlayers, the last committed move

vars == <<board, memories, battle, call, node, sim, scores, game>>

----------------------------------------------------------------------------
(* types.ts *)

Commander == 40
Corps == 39
Division == 38
Brigade == 37
Regiment == 36
Battalion == 35
Company == 34
Platoon == 33
Engineer == 32
Bomb == 99
Mine == 88
Flag == 0

PieceType == {Commander, Corps, Division, Brigade, Regiment, Battalion,
              Company, Platoon, Engineer, Bomb, Mine, Flag}

PlayerId == 0 .. 3

\* "piece: Piece | null": the null occupant
NoPiece == [id |-> 0, type |-> -1, player |-> -1, isRevealed |-> FALSE]

Piece(id, type, player, isRevealed) ==
    [id |-> id, type |-> type, player |-> player, isRevealed |-> isRevealed]

----------------------------------------------------------------------------
(* constants.ts, gameLogic part : topology *)

BOARD_ROWS == 17
BOARD_COLS == 17

isValidPos(x, y) == x >= 0 /\ x < BOARD_ROWS /\ y >= 0 /\ y < BOARD_COLS

isTopZone(r, c) == r >= 0 /\ r <= 5 /\ c >= 6 /\ c <= 10
isBottomZone(r, c) == r >= 11 /\ r <= 16 /\ c >= 6 /\ c <= 10
isLeftZone(r, c) == r >= 6 /\ r <= 10 /\ c >= 0 /\ c <= 5
isRightZone(r, c) == r >= 6 /\ r <= 10 /\ c >= 11 /\ c <= 16

isCentralRailwayVertical(r, c) == c \in {6, 8, 10} /\ r >= 6 /\ r <= 10
isCentralRailwayHorizontal(r, c) == r \in {6, 8, 10} /\ c >= 6 /\ c <= 10
isCentralRailway(r, c) ==
    isCentralRailwayVertical(r, c) \/ isCentralRailwayHorizontal(r, c)

campsites ==
    { <<2, 7>>, <<3, 8>>, <<2, 9>>, <<4, 7>>, <<4, 9>>,
      <<14, 7>>, <<13, 8>>, <<14, 9>>, <<12, 7>>, <<12, 9>>,
      <<7, 2>>, <<8, 3>>, <<9, 2>>, <<7, 4>>, <<9, 4>>,
      <<7, 14>>, <<8, 13>>, <<9, 14>>, <<7, 12>>, <<9, 12>> }

hqs == { <<0, 7>>, <<0, 9>>, <<16, 7>>, <<16, 9>>,
         <<7, 0>>, <<9, 0>>, <<7, 16>>, <<9, 16>> }

\* no Headquarters owned by anyone
getHQOwnerNobody(r, c) == -1

\* null is rendered as -1
getHQOwner(r, c) ==
    IF r = 0 /\ c \in {7, 9} THEN 2
    ELSE IF r = 16 /\ c \in {7, 9} THEN 0
    ELSE IF c = 0 /\ r \in {7, 9} THEN 3
    ELSE IF c = 16 /\ r \in {7, 9} THEN 1
    ELSE -1

isVerticalRailway(r, c) ==
    \/ isCentralRailwayVertical(r, c)
    \/ c \in {6, 10} /\ r >= 1 /\ r <= 5
    \/ c \in {6, 10} /\ r >= 11 /\ r <= 15
    \/ c \in {1, 5} /\ r >= 6 /\ r <= 10
    \/ c \in {11, 15} /\ r >= 6 /\ r <= 10
    \/ c = 8 /\ r \in {5, 11}

isHorizontalRailway(r, c) ==
    \/ isCentralRailwayHorizontal(r, c)
    \/ r \in {1, 5} /\ c >= 6 /\ c <= 10
    \/ r \in {11, 15} /\ c >= 6 /\ c <= 10
    \/ r \in {6, 10} /\ c >= 1 /\ c <= 5
    \/ r \in {6, 10} /\ c >= 11 /\ c <= 15
    \/ r = 8 /\ c \in {5, 11}

isRailwayNode(r, c) == isVerticalRailway(r, c) \/ isHorizontalRailway(r, c)

\* the Map railwayCorners, as its (key, neighbour) pairs in insertion order
railwayCorners ==
    << << <<11, 6>>, <<10, 5>> >>, << <<10, 5>>, <<11, 6>> >>,
       << <<11, 10>>, <<10, 11>> >>, << <<10, 11>>, <<11, 10>> >>,
       << <<5, 6>>, <<6, 5>> >>, << <<6, 5>>, <<5, 6>> >>,
       << <<5, 10>>, <<6, 11>> >>, << <<6, 11>>, <<5, 10>> >> >>

getCornerNeighbors(r, c) ==
    { railwayCorners[i][2] : i \in { j \in DOMAIN railwayCorners : railwayCorners[j][1] = <<r, c>> } }

\* createInitialBoard: the cells that are not null
Cells ==
    { p \in (0 .. BOARD_ROWS - 1) \X (0 .. BOARD_COLS - 1) :
        \/ isTopZone(p[1], p[2]) \/ isBottomZone(p[1], p[2])
        \/ isLeftZone(p[1], p[2]) \/ isRightZone(p[1], p[2])
        \/ isCentralRailway(p[1], p[2]) }

\* BoardNode.type with the Headquarters typed as ordinary cells
nodeTypeNoHeadquarters(p) ==
    IF p \in campsites THEN "campsite"
    ELSE IF isRailwayNode(p[1], p[2]) THEN "station"
    ELSE "normal"

\* BoardNode.type with the Campsites typed as ordinary cells
nodeTypeNoCampsite(p) ==
    IF p \in hqs THEN "hq"
    ELSE IF isRailwayNode(p[1], p[2]) THEN "station"
    ELSE "normal"

\* BoardNode.type as createInitialBoard assigns it
nodeType(p) ==
    IF p \in campsites THEN "campsite"
    ELSE IF p \in hqs THEN "hq"
    ELSE IF isRailwayNode(p[1], p[2]) THEN "station"
    ELSE "normal"

\* board[x]?.[y]?.piece, null for a missing node as for an empty one
pieceAt(b, p) == IF p \in Cells THEN b[p] ELSE NoPiece

hasPiece(b, p) == p \in Cells /\ b[p] # NoPiece

EmptyBoard == [p \in Cells |-> NoPiece]

Abs(n) == IF n < 0 THEN -n ELSE n

Min(a, b) == IF a < b THEN a ELSE b

Max(a, b) == IF a > b THEN a ELSE b

areAdjacent(pos1, pos2) ==
    LET dx == Abs(pos1[1] - pos2[1])
        dy == Abs(pos1[2] - pos2[2])
    IN  \/ (dx = 1 /\ dy = 0) \/ (dx = 0 /\ dy = 1)
        \/ dx = 1 /\ dy = 1 /\ (pos1 \in campsites \/ pos2 \in campsites)

isStraightLine(from, to) == from[1] = to[1] \/ from[2] = to[2]

\* every straight segment taken for clear
isPathClearAlways(b, from, to) == TRUE

isPathClear(b, from, to) ==
    IF from[1] = to[1] THEN
        \A y \in (Min(from[2], to[2]) + 1) .. (Max(from[2], to[2]) - 1) :
            /\ <<from[1], y>> \in Cells
            /\ b[<<from[1], y>>] = NoPiece
            /\ isRailwayNode(from[1], y)
    ELSE IF from[2] = to[2] THEN
        \A x \in (Min(from[1], to[1]) + 1) .. (Max(from[1], to[1]) - 1) :
            /\ <<x, from[2]>> \in Cells
            /\ b[<<x, from[2]>>] = NoPiece
            /\ isRailwayNode(x, from[2])
    ELSE FALSE

\* one dequeue of findRailwayPath: the cells curr pushes on the queue
railwaySteps(b, curr, to) ==
    LET x == curr[1]
        y == curr[2]
        vertical == IF isVerticalRailway(x, y)
                    THEN { n \in {<<x + 1, y>>, <<x - 1, y>>} :
                             n \in Cells /\ isVerticalRailway(n[1], n[2]) }
                    ELSE {}
        horizontal == IF isHorizontalRailway(x, y)
                      THEN { n \in {<<x, y + 1>>, <<x, y - 1>>} :
                               n \in Cells /\ isHorizontalRailway(n[1], n[2]) }
                      ELSE {}
        corner == { n \in getCornerNeighbors(x, y) :
                      n \in Cells /\ isRailwayNode(n[1], n[2]) }
    IN  { n \in vertical \cup horizontal \cup corner : b[n] = NoPiece \/ n = to }

RECURSIVE railwayClosure(_, _, _, _)
railwayClosure(b, to, visited, frontier) ==
    IF frontier = {} \/ to \in visited THEN visited
    ELSE LET next == (UNION { railwaySteps(b, c, to) : c \in frontier }) \ visited
         IN  railwayClosure(b, to, visited \cup next, next)

\* an Engineer held to the straight runs of the other pieces
findRailwayPathStraightOnly(b, from, to) ==
    isStraightLine(from, to) /\ isPathClear(b, from, to)

\* breadth-first search over the railway graph
findRailwayPath(b, from, to) ==
    /\ isRailwayNode(from[1], from[2])
    /\ isRailwayNode(to[1], to[2])
    /\ to \in railwayClosure(b, to, {from}, {from})

\* no cell taken to lie in the central zone
inCentreNowhere(p) == FALSE

inCentre(p) == p[1] >= 6 /\ p[1] <= 10 /\ p[2] >= 6 /\ p[2] <= 10

\* every cell of the central zone taken for a station
isCentralStationAnyCell(r, c) == TRUE

isCentralStation(r, c) == r \in {6, 8, 10} /\ c \in {6, 8, 10}

\* Case 3 of isValidMove: one (c1, c2) pair of the corner loop lets the move through
cornerPath(b, from, to, c1, c2) ==
    /\ ~(c1[1] \in {5, 11} /\ from[2] # c1[2])
    /\ ~(c1[2] \in {5, 11} /\ from[1] # c1[1])
    /\ isStraightLine(from, c1)
    /\ ~inCentre(from)
    /\ ~(c1 = <<11, 6>> /\ ~(from[2] = 6 /\ from[1] >= 11))
    /\ ~(c1 = <<11, 10>> /\ ~(from[2] = 10 /\ from[1] >= 11))
    /\ ~(c1 = <<5, 6>> /\ ~(from[2] = 6 /\ from[1] <= 5))
    /\ ~(c1 = <<5, 10>> /\ ~(from[2] = 10 /\ from[1] <= 5))
    /\ ~(c1 = <<6, 5>> /\ ~(from[1] = 6 /\ from[2] <= 5))
    /\ ~(c1 = <<10, 5>> /\ ~(from[1] = 10 /\ from[2] <= 5))
    /\ ~(c1 = <<6, 11>> /\ ~(from[1] = 6 /\ from[2] >= 11))
    /\ ~(c1 = <<10, 11>> /\ ~(from[1] = 10 /\ from[2] >= 11))
    /\ c2[1] \in {5, 11} =>
          /\ to[2] = c2[2]
          /\ ~(c2[1] = 5 /\ to[1] > 5)
          /\ ~(c2[1] = 11 /\ to[1] < 11)
    /\ c2[2] \in {5, 11} =>
          /\ to[1] = c2[1]
          /\ ~(c2[2] = 5 /\ to[2] > 5)
          /\ ~(c2[2] = 11 /\ to[2] < 11)
    /\ isStraightLine(to, c2)
    /\ IF c2[1] \in {5, 11} THEN to[2] = c2[2]
       ELSE IF c2[2] \in {5, 11} THEN to[1] = c2[1]
       ELSE TRUE
    /\ from # c1 => (b[c1] = NoPiece /\ isPathClear(b, from, c1))
    /\ to # c2 => (b[c2] = NoPiece /\ isPathClear(b, c2, to))

\* no two seats taken for teammates
isTeammateNobody(p, q) == FALSE

isTeammate(p, q) ==
    \/ (p = 0 /\ q = 2) \/ (p = 2 /\ q = 0)
    \/ (p = 1 /\ q = 3) \/ (p = 3 /\ q = 1)

\* the engineer blocking rule of isValidMove
engineerBlocked(b, from) ==
    \/ from = <<11, 7>> /\ hasPiece(b, <<11, 6>>) /\ hasPiece(b, <<11, 8>>)
    \/ from = <<11, 9>> /\ hasPiece(b, <<11, 8>>) /\ hasPiece(b, <<11, 10>>)
    \/ from = <<5, 7>> /\ hasPiece(b, <<5, 6>>) /\ hasPiece(b, <<5, 8>>)
    \/ from = <<5, 9>> /\ hasPiece(b, <<5, 8>>) /\ hasPiece(b, <<5, 10>>)
    \/ from = <<7, 5>> /\ hasPiece(b, <<6, 5>>) /\ hasPiece(b, <<8, 5>>)
    \/ from = <<9, 5>> /\ hasPiece(b, <<8, 5>>) /\ hasPiece(b, <<10, 5>>)
    \/ from = <<7, 11>> /\ hasPiece(b, <<6, 11>>) /\ hasPiece(b, <<8, 11>>)
    \/ from = <<9, 11>> /\ hasPiece(b, <<8, 11>>) /\ hasPiece(b, <<10, 11>>)

\* the front row restriction of isValidMove
frontRowBlocked(from, to) ==
    \/ from[1] = 5 /\ from[2] \in {7, 9} /\ to[1] = 6
    \/ from[1] = 11 /\ from[2] \in {7, 9} /\ to[1] = 10
    \/ from[2] = 5 /\ from[1] \in {7, 9} /\ to[2] = 6
    \/ from[2] = 11 /\ from[1] \in {7, 9} /\ to[2] = 10

isValidMove(b, from, to, piece) ==
    /\ isValidPos(from[1], from[2]) /\ isValidPos(to[1], to[2])
    /\ from \in Cells /\ to \in Cells
    /\ b[from] # NoPiece /\ b[from].id = piece.id
    /\ piece.type \notin {Flag, Mine}
    /\ nodeType(from) # "hq"
    /\ ~( /\ nodeType(to) = "hq"
          /\ getHQOwner(to[1], to[2]) # -1
          /\ \/ getHQOwner(to[1], to[2]) = piece.player
             \/ (piece.player + 2) % 4 = getHQOwner(to[1], to[2]) )
    /\ ~(nodeType(to) = "campsite" /\ b[to] # NoPiece)
    /\ b[to] # NoPiece =>
          /\ b[to].player # piece.player
          /\ ~isTeammate(piece.player, b[to].player)
    /\ inCentre(to) => isCentralStation(to[1], to[2])
    /\ ~(areAdjacent(from, to) /\ frontRowBlocked(from, to))
    /\ ~(piece.type = Engineer /\ engineerBlocked(b, from))
    /\ IF areAdjacent(from, to) THEN TRUE
       ELSE /\ isRailwayNode(from[1], from[2]) /\ isRailwayNode(to[1], to[2])
            /\ IF piece.type = Engineer THEN findRailwayPath(b, from, to)
               ELSE IF to \in getCornerNeighbors(from[1], from[2]) THEN TRUE
               ELSE IF isStraightLine(from, to) THEN isPathClear(b, from, to)
               ELSE \E i \in DOMAIN railwayCorners :
                        cornerPath(b, from, to, railwayCorners[i][1], railwayCorners[i][2])

\* the cells in the order of the row/column double loop
CellSeq ==
    SelectSeq([k \in 1 .. BOARD_ROWS * BOARD_COLS |->
                  << (k - 1) \div BOARD_COLS, (k - 1) % BOARD_COLS >>],
              LAMBDA p : p \in Cells)

\* every empty neighbouring cell offered, whatever the piece
getPossibleMovesAnyPiece(b, pos) ==
    IF ~hasPiece(b, pos) THEN << >>
    ELSE SelectSeq(CellSeq, LAMBDA t : areAdjacent(pos, t) /\ b[t] = NoPiece)

getPossibleMoves(b, pos) ==
    IF ~hasPiece(b, pos) THEN << >>
    ELSE SelectSeq(CellSeq, LAMBDA t : isValidMove(b, pos, t, b[pos]))

----------------------------------------------------------------------------
(* constants.ts, gameLogic part : combat *)

\* the BattleResult for an outcome [a, d, f, c]: attackerSurvives,
\* defenderSurvives, isFlagCapture, isCommanderDeath
battleResult(att, def, out) ==
    [attackerSurvives |-> out.a,
     defenderSurvives |-> out.d,
     details |->
        [winner |-> IF out.a THEN att ELSE IF out.d THEN def ELSE NoPiece,
         loser |-> IF ~out.a THEN att ELSE IF ~out.d THEN def ELSE NoPiece,
         isFlagCapture |-> out.f,
         isCommanderDeath |-> out.c]]

\* the comparison of ranks in which a tie is not counted as a Commander's death
byRankTieSparesCommander(att, def) ==
    IF att.type > def.type THEN
        [a |-> TRUE, d |-> FALSE, f |-> FALSE, c |-> (def.type = Commander)]
    ELSE IF att.type < def.type THEN
        [a |-> FALSE, d |-> TRUE, f |-> FALSE, c |-> (att.type = Commander)]
    ELSE
        [a |-> FALSE, d |-> FALSE, f |-> FALSE, c |-> FALSE]

\* the comparison of ranks in which the attacker wins a tie
byRankAttackerWinsTies(att, def) ==
    IF att.type >= def.type THEN
        [a |-> TRUE, d |-> FALSE, f |-> FALSE, c |-> (def.type = Commander)]
    ELSE
        [a |-> FALSE, d |-> TRUE, f |-> FALSE, c |-> (att.type = Commander)]

\* the comparison of ranks that ends resolveCombat
byRank(att, def) ==
    IF att.type > def.type THEN
        [a |-> TRUE, d |-> FALSE, f |-> FALSE, c |-> (def.type = Commander)]
    ELSE IF att.type < def.type THEN
        [a |-> FALSE, d |-> TRUE, f |-> FALSE, c |-> (att.type = Commander)]
    ELSE
        [a |-> FALSE, d |-> FALSE, f |-> FALSE, c |-> (att.type = Commander)]

\* resolveCombat without its Flag rule: a Flag is beaten by rank like any
\* other piece and no capture is reported
resolveCombatFlagByRank(att, def) ==
    battleResult(att, def,
        IF att.type = Bomb \/ def.type = Bomb THEN
            [a |-> FALSE, d |-> FALSE, f |-> FALSE,
             c |-> (att.type = Commander \/ def.type = Commander)]
        ELSE IF att.type = Engineer /\ def.type = Mine THEN
            [a |-> TRUE, d |-> FALSE, f |-> FALSE, c |-> FALSE]
        ELSE IF def.type = Mine THEN
            [a |-> FALSE, d |-> TRUE, f |-> FALSE, c |-> (att.type = Commander)]
        ELSE byRank(att, def))

\* resolveCombat in which every attacker clears a Mine as an Engineer does
resolveCombatAnyoneDefuses(att, def) ==
    battleResult(att, def,
        IF att.type = Bomb \/ def.type = Bomb THEN
            [a |-> FALSE, d |-> FALSE, f |-> FALSE,
             c |-> (att.type = Commander \/ def.type = Commander)]
        ELSE IF def.type = Mine THEN
            [a |-> TRUE, d |-> FALSE, f |-> FALSE, c |-> FALSE]
        ELSE IF def.type = Flag THEN
            [a |-> TRUE, d |-> FALSE, f |-> TRUE, c |-> FALSE]
        ELSE byRank(att, def))

\* resolveCombat with the Bomb rule tested after the Mine and Flag rules
resolveCombatBombLast(att, def) ==
    battleResult(att, def,
        IF att.type = Engineer /\ def.type = Mine THEN
            [a |-> TRUE, d |-> FALSE, f |-> FALSE, c |-> FALSE]
        ELSE IF def.type = Mine THEN
            [a |-> FALSE, d |-> TRUE, f |-> FALSE, c |-> (att.type = Commander)]
        ELSE IF def.type = Flag THEN
            [a |-> TRUE, d |-> FALSE, f |-> TRUE, c |-> FALSE]
        ELSE IF att.type = Bomb \/ def.type = Bomb THEN
            [a |-> FALSE, d |-> FALSE, f |-> FALSE,
             c |-> (att.type = Commander \/ def.type = Commander)]
        ELSE byRank(att, def))

resolveCombat(att, def) ==
    battleResult(att, def,
        IF att.type = Bomb \/ def.type = Bomb THEN
            [a |-> FALSE, d |-> FALSE, f |-> FALSE,
             c |-> (att.type = Commander \/ def.type = Commander)]
        ELSE IF att.type = Engineer /\ def.type = Mine THEN
            [a |-> TRUE, d |-> FALSE, f |-> FALSE, c |-> FALSE]
        ELSE IF def.type = Mine THEN
            [a |-> FALSE, d |-> TRUE, f |-> FALSE, c |-> (att.type = Commander)]
        ELSE IF def.type = Flag THEN
            [a |-> TRUE, d |-> FALSE, f |-> TRUE, c |-> FALSE]
        ELSE byRank(att, def))

----------------------------------------------------------------------------
(* Board.tsx : the board part of executeMove *)

\* the cells of b that hold a piece, in row/column order
occupied(b) == SelectSeq(CellSeq, LAMBDA p : b[p] # NoPiece)

occupiedCells(b) == { p \in Cells : b[p] # NoPiece }

\* "board.forEach(row => row.forEach(n => { if (n?.piece) allPieces.push(n.piece) }))"
piecesOn(b) == { b[p] : p \in occupiedCells(b) }

revealFlag(b, pid) ==
    [p \in Cells |->
        IF b[p] # NoPiece /\ b[p].player = pid /\ b[p].type = Flag
        THEN [b[p] EXCEPT !.isRevealed = TRUE]
        ELSE b[p]]

removePlayerPieces(b, pid) ==
    [p \in Cells |-> IF b[p] # NoPiece /\ b[p].player = pid THEN NoPiece ELSE b[p]]

\* a seat checked for its Flag only
newlyDeadFlagOnly(b, deadPlayers) ==
    { pid \in PlayerId \ deadPlayers :
        ~\E p \in occupiedCells(b) : b[p].player = pid /\ b[p].type = Flag }

\* checkGameOver's scan: the seats outside deadPlayers that lack a Flag, a
\* piece, or a piece other than Flag and Mine with a possible move
newlyDead(b, deadPlayers) ==
    { pid \in PlayerId \ deadPlayers :
        LET own == { p \in occupiedCells(b) : b[p].player = pid }
            hasFlag == \E p \in own : b[p].type = Flag
            hasPieces == own # {}
            hasMovablePieces ==
                \E p \in own : /\ b[p].type \notin {Flag, Mine}
                                /\ Len(getPossibleMoves(b, p)) > 0
        IN  ~(hasFlag /\ hasPieces /\ hasMovablePieces) }

\* a team counted out as soon as one of its seats is dead
checkGameOverOneSeatDown(b, deadPlayers) ==
    LET allDead == deadPlayers \cup newlyDead(b, deadPlayers)
        team0Alive == 0 \notin allDead /\ 2 \notin allDead
        team1Alive == 1 \notin allDead /\ 3 \notin allDead
    IN  [isOver |-> ~team0Alive \/ ~team1Alive,
         winnerTeam |-> IF ~team0Alive THEN 1 ELSE IF ~team1Alive THEN 0 ELSE -1,
         newDeadPlayers |-> newlyDead(b, deadPlayers)]

\* winnerTeam undefined is rendered as -1
checkGameOver(b, deadPlayers) ==
    LET allDead == deadPlayers \cup newlyDead(b, deadPlayers)
        team0Alive == 0 \notin allDead \/ 2 \notin allDead
        team1Alive == 1 \notin allDead \/ 3 \notin allDead
    IN  [isOver |-> ~team0Alive \/ ~team1Alive,
         winnerTeam |-> IF ~team0Alive THEN 1 ELSE IF ~team1Alive THEN 0 ELSE -1,
         newDeadPlayers |-> newlyDead(b, deadPlayers)]

\* the board update of executeMove for a battle result
commitMove(b, from, to, movingPiece, result) ==
    IF b[to] # NoPiece THEN
        IF result.attackerSurvives /\ ~result.defenderSurvives
        THEN [b EXCEPT ![to] = movingPiece, ![from] = NoPiece]
        ELSE IF ~result.attackerSurvives /\ result.defenderSurvives
        THEN [b EXCEPT ![from] = NoPiece]
        ELSE IF ~result.attackerSurvives /\ ~result.defenderSurvives
        THEN [b EXCEPT ![to] = NoPiece, ![from] = NoPiece]
        ELSE b
    ELSE [b EXCEPT ![to] = movingPiece, ![from] = NoPiece]

\* the clone of the board made with every piece hidden again
executeMoveBoardHidden(b, from, to) ==
    LET clone == [p \in Cells |-> IF b[p] = NoPiece THEN NoPiece
                                  ELSE [b[p] EXCEPT !.isRevealed = FALSE]]
        result == resolveCombat(clone[from], clone[to])
        b1 == IF /\ result.details.isCommanderDeath
                 /\ clone[from].type = Commander /\ ~result.attackerSurvives
              THEN revealFlag(clone, clone[from].player) ELSE clone
        b2 == IF /\ result.details.isCommanderDeath
                 /\ clone[to].type = Commander /\ ~result.defenderSurvives
              THEN revealFlag(b1, clone[to].player) ELSE b1
    IN  commitMove(b2, from, to, clone[from], result)

\* executeMove up to "Add to history": the new board of a committed move
executeMoveBoard(b, from, to) ==
    LET movingPiece == b[from]
        targetPiece == b[to]
        result == resolveCombat(movingPiece, targetPiece)
        b1 == IF /\ result.details.isCommanderDeath
                 /\ movingPiece.type = Commander /\ ~result.attackerSurvives
              THEN revealFlag(b, movingPiece.player) ELSE b
        b2 == IF /\ result.details.isCommanderDeath
                 /\ targetPiece.type = Commander /\ ~result.defenderSurvives
              THEN revealFlag(b1, targetPiece.player) ELSE b1
    IN  commitMove(b2, from, to, movingPiece, result)

----------------------------------------------------------------------------
(* ai/memory.ts : AIMemory *)

\* the PieceMemory reset() creates; confirmedType null is rendered as -1
freshMemory(p) ==
    [pieceId |-> p.id,
     owner |-> p.player,
     minRank |-> Engineer,
     maxRank |-> Commander,
     possibleTypes |-> PieceType,
     isConfirmed |-> FALSE,
     confirmedType |-> -1,
     isBombCandidate |-> TRUE,
     isEngineerCandidate |-> TRUE,
     defeatedOurRank |-> 0,
     wasProbed |-> FALSE,
     probeCount |-> 0,
     isConfirmedMine |-> FALSE,
     isInBackRows |-> FALSE,
     hasMoved |-> FALSE]

\* reset(allPieces), allPieces being a set of pieces with distinct ids
reset(allPieces) ==
    [id \in { p.id : p \in allPieces } |->
        freshMemory(CHOOSE p \in allPieces : p.id = id)]

markPieceMoved(mems, pieceId) ==
    IF pieceId \in DOMAIN mems
    THEN [mems EXCEPT ![pieceId] =
            [@ EXCEPT !.hasMoved = TRUE,
                      !.possibleTypes = @ \ {Mine, Flag}]]
    ELSE mems

\* the last cell of occ, a sequence of cells, at which the piece with this id stands
lastCellOf(b, occ, id) ==
    LET at == SelectSeq(occ, LAMBDA p : b[p].id = id)
    IN  at[Len(at)]

\* playerId is not read by the code
markBackRowPieces(mems, b, playerId) ==
    LET occ == occupied(b)
        ids == { b[occ[i]].id : i \in DOMAIN occ }
    IN  [id \in DOMAIN mems |->
            IF id \in ids
            THEN LET cell == lastCellOf(b, occ, id)
                     r == cell[1]
                     piece == b[cell]
                     isPlayerBottom == piece.player = 0 \/ piece.player = 3
                     isBackRow == IF isPlayerBottom THEN r >= BOARD_ROWS - 2 ELSE r <= 1
                 IN  [mems[id] EXCEPT !.isInBackRows = isBackRow]
            ELSE mems[id]]

updateWinner(mems, winner, loser) ==
    [mems EXCEPT ![winner].possibleTypes = @ \ {Mine, Flag}]

updateTie(mems, p1, p2) == mems

\* the last beaten rank kept instead of the highest
raiseDefeatedOverwrite(mems, id, rank) ==
    [mems EXCEPT ![id].defeatedOurRank = rank]

\* an update of processBattle that mutates one PieceMemory
raiseDefeated(mems, id, rank) ==
    [mems EXCEPT ![id].defeatedOurRank = Max(@, rank)]

\* processBattle with the mine verdict applied after the winner's update,
\* so that the verdict's {Mine} is what the call leaves behind
processBattleVerdictLast(mems, att, def, result) ==
    IF att.id \notin DOMAIN mems \/ def.id \notin DOMAIN mems THEN mems
    ELSE
    LET m1 == IF att.type = Engineer
              THEN [mems EXCEPT ![def.id].wasProbed = TRUE] ELSE mems
        m2 == [m1 EXCEPT ![def.id].probeCount = @ + 1]
        cross == m2[att.id].owner # m2[def.id].owner
        m3 == IF result.winner # NoPiece /\ result.winner.id = att.id THEN
                  LET m4 == updateWinner(m2, att.id, def.id)
                  IN  IF cross THEN raiseDefeated(m4, att.id, def.type) ELSE m4
              ELSE IF result.winner # NoPiece /\ result.winner.id = def.id THEN
                  LET m4 == updateWinner(m2, def.id, att.id)
                  IN  IF cross THEN raiseDefeated(m4, def.id, att.type) ELSE m4
              ELSE
                  LET m4 == updateTie(m2, att.id, def.id)
                  IN  IF cross
                      THEN raiseDefeated(raiseDefeated(m4, def.id, att.type),
                                         att.id, def.type)
                      ELSE m4
    IN  IF /\ result.winner.id = def.id /\ result.winner # NoPiece
           /\ att.type # Engineer
           /\ m3[def.id].isInBackRows
        THEN [m3 EXCEPT ![def.id] =
                  [@ EXCEPT !.isConfirmedMine = TRUE,
                            !.isConfirmed = TRUE,
                            !.confirmedType = Mine,
                            !.possibleTypes = {Mine}]]
        ELSE m3

processBattle(mems, att, def, result) ==
    IF att.id \notin DOMAIN mems \/ def.id \notin DOMAIN mems THEN mems
    ELSE
    LET m1 == IF att.type = Engineer
              THEN [mems EXCEPT ![def.id].wasProbed = TRUE] ELSE mems
        m2 == [m1 EXCEPT ![def.id].probeCount = @ + 1]
        m3 == IF /\ result.winner.id = def.id /\ result.winner # NoPiece
                 /\ att.type # Engineer
                 /\ m2[def.id].isInBackRows
              THEN [m2 EXCEPT ![def.id] =
                        [@ EXCEPT !.isConfirmedMine = TRUE,
                                  !.isConfirmed = TRUE,
                                  !.confirmedType = Mine,
                                  !.possibleTypes = {Mine}]]
              ELSE m2
        cross == m3[att.id].owner # m3[def.id].owner
    IN  IF result.winner # NoPiece /\ result.winner.id = att.id THEN
            LET m4 == updateWinner(m3, att.id, def.id)
            IN  IF cross THEN raiseDefeated(m4, att.id, def.type) ELSE m4
        ELSE IF result.winner # NoPiece /\ result.winner.id = def.id THEN
            LET m4 == updateWinner(m3, def.id, att.id)
            IN  IF cross THEN raiseDefeated(m4, def.id, att.type) ELSE m4
        ELSE
            LET m4 == updateTie(m3, att.id, def.id)
            IN  IF cross
                THEN raiseDefeated(raiseDefeated(m4, def.id, att.type), att.id, def.type)
                ELSE m4

sync(mems, b) ==
    LET occ == SelectSeq(occupied(b), LAMBDA p : b[p].isRevealed)
        ids == { b[occ[i]].id : i \in DOMAIN occ }
    IN  [id \in DOMAIN mems |->
            IF id \in ids
            THEN LET piece == b[lastCellOf(b, occ, id)]
                 IN  [mems[id] EXCEPT !.isConfirmed = TRUE,
                                      !.confirmedType = piece.type,
                                      !.minRank = piece.type,
                                      !.maxRank = piece.type,
                                      !.possibleTypes = {piece.type}]
            ELSE mems[id]]

----------------------------------------------------------------------------
(* ai/evaluation.ts : AIEvaluator.  A score is kept in quarters of a point
   (the number the code computes, times 4): a teammate's piece counts half
   and an unknown piece counts the mean of two rank values, so the code's
   scores are multiples of a quarter and the products below are exact. *)

\* stands for the code's Infinity: larger than any score of a board
Infinity == 1000000000

PIECE_VALUES(t) ==
    CASE t = Commander -> 1000
      [] t = Corps -> 500
      [] t = Division -> 250
      [] t = Brigade -> 120
      [] t = Regiment -> 60
      [] t = Battalion -> 40
      [] t = Company -> 20
      [] t = Platoon -> 10
      [] t = Engineer -> 60
      [] t = Bomb -> 400
      [] t = Mine -> 100
      [] t = Flag -> 10000
      [] OTHER -> 0

RECURSIVE sumSeq(_)
\* "score += ..." over the cells of a scan
sumSeq(s) == IF s = << >> THEN 0 ELSE Head(s) + sumSeq(Tail(s))

RECURSIVE concatAll(_)
\* "moves.push(...)" over the cells of a scan
concatAll(ss) == IF ss = << >> THEN << >> ELSE Head(ss) \o concatAll(Tail(ss))

\* the first Flag of pid in scan order, << >> for "flagPos = null"
flagPosOf(b, occ, pid) ==
    LET fs == SelectSeq(occ, LAMBDA p : b[p].player = pid /\ b[p].type = Flag)
    IN  IF fs = << >> THEN << >> ELSE fs[1]

isEnemyOf(pc, pid) == pc.player # pid /\ (pc.player + 2) % 4 # pid

\* getThreatLevel on the occupied cells occ of b
threatOn(b, occ, pid) ==
    LET flagPos == flagPosOf(b, occ, pid)
        near(p) ==
            LET dist == Abs(p[1] - flagPos[1]) + Abs(p[2] - flagPos[2])
            IN  IF ~isEnemyOf(b[p], pid) THEN 0
                ELSE IF dist <= 1 THEN 5
                ELSE IF dist <= 2 THEN 3
                ELSE IF dist <= 3 THEN 1
                ELSE 0
    IN  IF flagPos = << >> THEN 0
        ELSE sumSeq([i \in DOMAIN occ |-> near(occ[i])])

getThreatLevel(b, pid) == threatOn(b, occupied(b), pid)

getRankValue(rank) ==
    IF rank >= 40 THEN 1000
    ELSE IF rank >= 39 THEN 500
    ELSE IF rank >= 38 THEN 250
    ELSE IF rank >= 37 THEN 120
    ELSE IF rank >= 36 THEN 60
    ELSE IF rank >= 35 THEN 40
    ELSE IF rank >= 34 THEN 20
    ELSE 10

\* in quarters; "PIECE_VALUES[piece.type] || 10", "if (!mem) return 50"
getPieceValue(piece, mems, observerPid) ==
    IF piece.player = observerPid \/ piece.isRevealed THEN
        (IF PIECE_VALUES(piece.type) = 0 THEN 4 * 10 ELSE 4 * PIECE_VALUES(piece.type))
    ELSE IF piece.id \notin DOMAIN mems THEN 4 * 50
    ELSE LET mem == mems[piece.id]
         IN  2 * (getRankValue(mem.minRank) + getRankValue(mem.maxRank))
                 + (IF mem.isBombCandidate THEN 4 * 100 ELSE 0)

getPositionBonus(p) ==
    IF isRailwayNode(p[1], p[2]) THEN 10
    ELSE IF nodeType(p) = "campsite" THEN 15
    ELSE 0

\* getDefenseBonus once its scan for the Flag has found flagPos
getDefenseBonus(p, flagPos, piece) ==
    IF flagPos = << >> THEN 0
    ELSE IF Abs(p[1] - flagPos[1]) + Abs(p[2] - flagPos[2]) <= 2 THEN
        (IF piece.type = Mine THEN 50
         ELSE IF piece.type = Bomb THEN 40
         ELSE IF piece.type \in {Commander, Corps, Division} THEN 60
         ELSE 0)
    ELSE 0

\* "history[key] || 0" in the knowledge base of a first game
\* (createEmptyKnowledge): no Flag location has been recorded
flagCount(playerId, p) == 0

\* "if (probRight > 0.1 || probLeft > 0.1) score += 200"; a probability is
\* count / max(1, gameCount) and exceeds 0.1 only for a positive count
flagSpotBonus(pid, p) ==
    IF flagCount((pid + 1) % 4, p) > 0 \/ flagCount((pid + 3) % 4, p) > 0
    THEN 200 ELSE 0

\* evaluateBoard with the BALANCED persona (every weight 1.0), in quarters
evaluateBoard(b, mems, pid) ==
    LET occ == occupied(b)
        flagPos == flagPosOf(b, occ, pid)
        term(p) ==
            LET pc == b[p]
                value == getPieceValue(pc, mems, pid)
            IN  IF pc.player = pid THEN
                    value + 4 * getPositionBonus(p)
                          + 4 * getDefenseBonus(p, flagPos, pc)
                          + 4 * flagSpotBonus(pid, p)
                ELSE IF (pc.player + 2) % 4 = pid THEN value \div 2
                ELSE 0 - value
    IN  sumSeq([i \in DOMAIN occ |-> term(occ[i])]) - 4 * 50 * threatOn(b, occ, pid)

dirs == << <<0, 1>>, <<0, -1>>, <<1, 0>>, <<-1, 0>> >>

\* the orthogonal steps of every piece of pid, in scan order
getPlayerMoves(b, pid) ==
    LET mine == SelectSeq(occupied(b), LAMBDA p : b[p].player = pid)
        steps(p) ==
            LET all == [k \in 1 .. 4 |->
                           [from |-> p,
                            to |-> << p[1] + dirs[k][1], p[2] + dirs[k][2] >>]]
            IN  SelectSeq(all, LAMBDA m :
                    /\ m.to \in Cells
                    /\ (b[m.to] = NoPiece \/ b[m.to].player # pid))
    IN  concatAll([i \in DOMAIN mine |-> steps(mine[i])])

\* "moves.sort(captures first)", a stable sort, then "moves.slice(0, 20)"
movesToEvaluate(b, moves) ==
    LET sorted == SelectSeq(moves, LAMBDA m : b[m.to] # NoPiece)
                  \o SelectSeq(moves, LAMBDA m : b[m.to] = NoPiece)
    IN  SubSeq(sorted, 1, Min(20, Len(sorted)))

getNextActivePlayer(b, currentPlayer) ==
    LET alive(pl) == \E p \in Cells : b[p] # NoPiece /\ b[p].player = pl /\ b[p].type # Flag
        steps == { i \in 1 .. 4 : alive((currentPlayer + i) % 4) }
    IN  IF steps = {} THEN currentPlayer
        ELSE (currentPlayer + (CHOOSE i \in steps : \A j \in steps : i <= j)) % 4

simulateMove(b, move) ==
    LET source == b[move.from]
        target == b[move.to]
    IN  IF source = NoPiece THEN b
        ELSE IF target # NoPiece THEN
            IF target.type = Flag \/ target.type = Mine THEN
                IF source.type = Engineer /\ target.type = Mine
                THEN [b EXCEPT ![move.to] = source]
                ELSE IF target.type = Mine
                THEN [b EXCEPT ![move.from] = NoPiece]
                ELSE [b EXCEPT ![move.to] = source]
            ELSE IF target.type = Bomb \/ source.type = Bomb
            THEN [b EXCEPT ![move.from] = NoPiece, ![move.to] = NoPiece]
            ELSE IF source.type > target.type
            THEN [b EXCEPT ![move.to] = source, ![move.from] = NoPiece]
            ELSE IF source.type < target.type
            THEN [b EXCEPT ![move.from] = NoPiece]
            ELSE [b EXCEPT ![move.from] = NoPiece, ![move.to] = NoPiece]
        ELSE [b EXCEPT ![move.to] = source, ![move.from] = NoPiece]

\* a cut-off that fires on the comparison turned round
cutOffReversed(alpha, beta) == alpha <= beta

\* "if (beta <= alpha) break"
cutOff(alpha, beta) == beta <= alpha

isOurSide(pl, originalPlayerId) ==
    pl = originalPlayerId \/ (pl + 2) % 4 = originalPlayerId

RECURSIVE minimaxWith(_, _, _, _, _, _, _, _, _)
RECURSIVE searchMoves(_, _, _, _, _, _, _, _, _, _, _, _)

\* the loop of minimax over movesToEvaluate from its i-th move on; best is
\* maxEval or minEval; without prune the loop never breaks
searchMoves(prune, b, moves, i, depth, alpha, beta, best, maximizingPlayer, currentPlayerId, originalPlayerId, mems) ==
    IF i > Len(moves) THEN best
    ELSE
    LET simBoard == simulateMove(b, moves[i])
        nextPlayer == getNextActivePlayer(simBoard, currentPlayerId)
        evalScore == minimaxWith(prune, simBoard, depth - 1, alpha, beta,
                                 isOurSide(nextPlayer, originalPlayerId),
                                 nextPlayer, originalPlayerId, mems)
        newBest == IF maximizingPlayer THEN Max(best, evalScore) ELSE Min(best, evalScore)
        newAlpha == IF maximizingPlayer THEN Max(alpha, evalScore) ELSE alpha
        newBeta == IF maximizingPlayer THEN beta ELSE Min(beta, evalScore)
    IN  IF prune /\ cutOff(newAlpha, newBeta) THEN newBest
        ELSE searchMoves(prune, b, moves, i + 1, depth, newAlpha, newBeta, newBest,
                         maximizingPlayer, currentPlayerId, originalPlayerId, mems)

minimaxWith(prune, b, depth, alpha, beta, maximizingPlayer, currentPlayerId, originalPlayerId, mems) ==
    IF depth = 0 THEN evaluateBoard(b, mems, originalPlayerId)
    ELSE
    LET moves == getPlayerMoves(b, currentPlayerId)
    IN  IF Len(moves) = 0 THEN
            LET score == evaluateBoard(b, mems, originalPlayerId)
            IN  IF maximizingPlayer THEN score - 4 * 10000 ELSE score + 4 * 10000
        ELSE searchMoves(prune, b, movesToEvaluate(b, moves), 1, depth, alpha, beta,
                         IF maximizingPlayer THEN 0 - Infinity ELSE Infinity,
                         maximizingPlayer, currentPlayerId, originalPlayerId, mems)

minimax(b, depth, alpha, beta, maximizingPlayer, currentPlayerId, originalPlayerId, mems) ==
    minimaxWith(TRUE, b, depth, alpha, beta, maximizingPlayer,
                currentPlayerId, originalPlayerId, mems)

\* the recursion of minimax with its two breaks taken out
minimaxFullWidth(b, depth, maximizingPlayer, currentPlayerId, originalPlayerId, mems) ==
    minimaxWith(FALSE, b, depth, 0 - Infinity, Infinity, maximizingPlayer,
                currentPlayerId, originalPlayerId, mems)

RECURSIVE searched(_, _, _, _, _, _, _, _, _, _)
\* the children the loop of minimax searches before it breaks, each with the
\* window it is searched with
searched(b, moves, i, depth, alpha, beta, maximizingPlayer, currentPlayerId, originalPlayerId, mems) ==
    IF i > Len(moves) THEN << >>
    ELSE
    LET simBoard == simulateMove(b, moves[i])
        nextPlayer == getNextActivePlayer(simBoard, currentPlayerId)
        evalScore == minimax(simBoard, depth - 1, alpha, beta,
                             isOurSide(nextPlayer, originalPlayerId),
                             nextPlayer, originalPlayerId, mems)
        newAlpha == IF maximizingPlayer THEN Max(alpha, evalScore) ELSE alpha
        newBeta == IF maximizingPlayer THEN beta ELSE Min(beta, evalScore)
    IN  << [move |-> moves[i], alpha |-> alpha, beta |-> beta] >>
        \o (IF cutOff(newAlpha, newBeta) THEN << >>
            ELSE searched(b, moves, i + 1, depth, newAlpha, newBeta, maximizingPlayer,
                          currentPlayerId, originalPlayerId, mems))

\* SmartAI.getBestMove: the legal moves of every piece of me, in scan order
possibleMoves(b, me) ==
    LET mine == SelectSeq(occupied(b), LAMBDA p : b[p].player = me)
        movesOf(p) ==
            LET tos == getPossibleMoves(b, p)
            IN  [k \in DOMAIN tos |-> [from |-> p, to |-> tos[k]]]
    IN  concatAll([i \in DOMAIN mine |-> movesOf(mine[i])])

\* "PIECE_VALUES[target.type] || 50" for an enemy target
quickMoveHeuristic(b, move, playerId) ==
    LET target == b[move.to]
    IN  IF b[move.from] = NoPiece THEN 0
        ELSE IF target # NoPiece /\ isEnemyOf(target, playerId)
        THEN (IF PIECE_VALUES(target.type) = 0 THEN 50 ELSE PIECE_VALUES(target.type))
        ELSE 0

RECURSIVE sortByHeuristic(_, _, _)
\* "sort((a, b) => b.heuristic - a.heuristic)", a stable sort
sortByHeuristic(b, moves, playerId) ==
    IF moves = << >> THEN << >>
    ELSE LET h(m) == quickMoveHeuristic(b, m, playerId)
             top == CHOOSE v \in { h(moves[i]) : i \in DOMAIN moves } :
                        \A i \in DOMAIN moves : h(moves[i]) <= v
         IN  SelectSeq(moves, LAMBDA m : h(m) = top)
             \o sortByHeuristic(b, SelectSeq(moves, LAMBDA m : h(m) # top), playerId)

\* "scoredMoves.slice(0, 15)"
topMovesToSearch(b, moves, playerId) ==
    LET sorted == sortByHeuristic(b, moves, playerId)
    IN  SubSeq(sorted, 1, Min(15, Len(sorted)))

searchDepth(b, playerId) == IF getThreatLevel(b, playerId) >= 3 THEN 3 ELSE 2

----------------------------------------------------------------------------
(* Values of the variables a specification does not use *)

NoBattle ==
    [attacker |-> NoPiece, defender |-> NoPiece, done |-> FALSE,
     result |-> resolveCombat(NoPiece, NoPiece)]

NoCall == [op |-> "none"]

NoNode == [seat |-> -1, root |-> -1, depth |-> -1, ply |-> -1]

NoSim == [done |-> FALSE]

NoScores == [done |-> FALSE]

NoGame == [status |-> "none"]

----------------------------------------------------------------------------
(* Combat resolution on its own: every engagement of two opposed pieces *)

\* the pieces of one type, one per seat
piecesOfType(id, t) == { Piece(id, t, pl, FALSE) : pl \in PlayerId }

CombatInit ==
    /\ \E ta \in PieceType, td \in PieceType :
          \E a \in piecesOfType(1, ta), d \in piecesOfType(2, td) :
              /\ a.player % 2 # d.player % 2
              /\ battle = [attacker |-> a, defender |-> d, done |-> FALSE,
                           result |-> resolveCombat(NoPiece, NoPiece),
                           reversed |-> FALSE,
                           reverse |-> resolveCombat(NoPiece, NoPiece)]
    /\ board = EmptyBoard
    /\ memories = << >>
    /\ call = NoCall
    /\ node = NoNode
    /\ sim = NoSim
    /\ scores = NoScores
    /\ game = NoGame

\* executeMove / runSingleGame: "const result = resolveCombat(movingPiece, targetPiece)"
ResolveCombat ==
    /\ ~battle.done
    /\ battle' = [battle EXCEPT !.done = TRUE,
                                !.result = resolveCombat(battle.attacker, battle.defender)]
    /\ UNCHANGED <<board, memories, call, node, sim, scores, game>>

\* resolveCombat applied to the same two pieces with the roles exchanged
ResolveCombatReversed ==
    /\ ~battle.reversed
    /\ battle' = [battle EXCEPT !.reversed = TRUE,
                                !.reverse = resolveCombat(battle.defender, battle.attacker)]
    /\ UNCHANGED <<board, memories, call, node, sim, scores, game>>

CombatNext == ResolveCombat \/ ResolveCombatReversed

SpecCombat == CombatInit /\ [][CombatNext]_vars

\* C9 as stated: every attacker type, Bomb included, captures a Flag and survives
C9_AnyAttackerCapturesFlag ==
    (battle.done /\ battle.defender.type = Flag) =>
        /\ battle.result.attackerSurvives
        /\ ~battle.result.defenderSurvives
        /\ battle.result.details.isFlagCapture

\* C9 amended: every attacker type other than Bomb attacking a Flag survives,
\* removes the Flag and gets isFlagCapture; a Bomb attacking a Flag removes
\* the Flag and itself, without isFlagCapture
C9_NonBombCapturesFlag ==
    (battle.done /\ battle.defender.type = Flag) =>
        IF battle.attacker.type # Bomb
        THEN /\ battle.result.attackerSurvives
             /\ ~battle.result.defenderSurvives
             /\ battle.result.details.isFlagCapture
        ELSE /\ ~battle.result.attackerSurvives
             /\ ~battle.result.defenderSurvives
             /\ ~battle.result.details.isFlagCapture

C9_Witness ==
    /\ battle.done
    /\ battle.defender.type = Flag
    /\ battle.attacker.type = Platoon
    /\ battle.result.details.isFlagCapture

\* C10 as stated: every attacker type other than Engineer dies on a Mine
\* and the Mine survives
C10_NonEngineerDiesOnMine ==
    (battle.done /\ battle.defender.type = Mine /\ battle.attacker.type # Engineer) =>
        /\ ~battle.result.attackerSurvives
        /\ battle.result.defenderSurvives

\* C10 amended: every attacker type other than Engineer and Bomb dies on a
\* Mine and the Mine survives; a Bomb attacking a Mine dies and removes the Mine
C10_NonEngineerNonBombDiesOnMine ==
    (battle.done /\ battle.defender.type = Mine /\ battle.attacker.type # Engineer) =>
        /\ ~battle.result.attackerSurvives
        /\ battle.result.defenderSurvives = (battle.attacker.type # Bomb)

C10_Witness ==
    /\ battle.done
    /\ battle.defender.type = Mine
    /\ battle.attacker.type = Commander
    /\ battle.result.defenderSurvives

\* C11: when the attacker or the defender is a Bomb, resolveCombat returns
\* attackerSurvives = false and defenderSurvives = false, whatever the other
\* piece is
C11_BombKillsBoth ==
    (battle.done /\ (battle.attacker.type = Bomb \/ battle.defender.type = Bomb)) =>
        /\ ~battle.result.attackerSurvives
        /\ ~battle.result.defenderSurvives

C11_Witness ==
    /\ battle.done
    /\ battle.attacker.type = Bomb
    /\ battle.defender.type = Flag
    /\ ~battle.result.attackerSurvives
    /\ ~battle.result.defenderSurvives

\* the types of the pieces that do not survive the engagement
casualties(b) ==
    (IF b.result.attackerSurvives THEN {} ELSE {b.attacker.type})
        \cup (IF b.result.defenderSurvives THEN {} ELSE {b.defender.type})

\* C12: isCommanderDeath is true exactly when a Commander is among the pieces
\* that do not survive; Commander attacking Commander kills both with
\* isCommanderDeath = true, Engineer attacking Mine leaves the Engineer alive,
\* removes the Mine and has isCommanderDeath = false
C12_CommanderDeathIffCommanderDies ==
    battle.done =>
        /\ battle.result.details.isCommanderDeath = (Commander \in casualties(battle))
        /\ (battle.attacker.type = Commander /\ battle.defender.type = Commander) =>
              /\ ~battle.result.attackerSurvives
              /\ ~battle.result.defenderSurvives
              /\ battle.result.details.isCommanderDeath
        /\ (battle.attacker.type = Engineer /\ battle.defender.type = Mine) =>
              /\ battle.result.attackerSurvives
              /\ ~battle.result.defenderSurvives
              /\ ~battle.result.details.isCommanderDeath

C12_Witness ==
    /\ battle.done
    /\ battle.attacker.type = Commander
    /\ battle.defender.type = Commander
    /\ battle.result.details.isCommanderDeath

\* the attacker of an engagement is its only survivor
attackerAlone(r) == r.attackerSurvives /\ ~r.defenderSurvives

\* both pieces of an engagement are removed
bothDie(r) == ~r.attackerSurvives /\ ~r.defenderSurvives

----------------------------------------------------------------------------
(* The AIMemory of one game and the board of the client that drives it:    *)
(* startGame resets it from the pieces on the board, every committed       *)
(* attack goes through processBattle, and the client may report moves,     *)
(* mark back rows and sync at any time.                                    *)

\* a board from a set of [cell, piece] placements
placePieces(roster) ==
    [p \in Cells |->
        IF \E e \in roster : e.cell = p
        THEN (CHOOSE e \in roster : e.cell = p).piece
        ELSE NoPiece]

\* seat 2's back rows under attack by seat 1
MemRoster ==
    { [cell |-> <<0, 7>>, piece |-> Piece(1, Flag, 2, FALSE)],
      [cell |-> <<1, 6>>, piece |-> Piece(2, Mine, 2, FALSE)],
      [cell |-> <<1, 8>>, piece |-> Piece(3, Commander, 2, FALSE)],
      [cell |-> <<1, 7>>, piece |-> Piece(4, Platoon, 1, FALSE)],
      [cell |-> <<2, 6>>, piece |-> Piece(5, Engineer, 1, FALSE)],
      [cell |-> <<1, 9>>, piece |-> Piece(6, Bomb, 1, FALSE)] }

MemInit ==
    /\ board = placePieces(MemRoster)
    /\ memories = reset(piecesOn(board))
    /\ call = [op |-> "reset"]
    /\ battle = NoBattle
    /\ node = NoNode
    /\ sim = NoSim
    /\ scores = NoScores
    /\ game = NoGame

\* startGame: a new game is laid out and aiMemory.current.reset(allPieces)
MemReset ==
    /\ board' = placePieces(MemRoster)
    /\ memories' = reset(piecesOn(board'))
    /\ call' = [op |-> "reset"]
    /\ UNCHANGED <<battle, node, sim, scores, game>>

\* the client reports that a piece has been seen moving; only a piece that
\* can move is ever seen moving
MarkPieceMoved ==
    \E pc \in piecesOn(board) :
        /\ pc.type \notin {Mine, Flag}
        /\ memories' = markPieceMoved(memories, pc.id)
        /\ call' = [op |-> "markPieceMoved", pieceId |-> pc.id]
        /\ UNCHANGED <<board, battle, node, sim, scores, game>>

MarkBackRowPieces ==
    \E pid \in PlayerId :
        /\ memories' = markBackRowPieces(memories, board, pid)
        /\ call' = [op |-> "markBackRowPieces"]
        /\ UNCHANGED <<board, battle, node, sim, scores, game>>

\* executeMove for a legal attack: resolveCombat, processBattle, the new board
ProcessBattle ==
    \E from \in occupiedCells(board), to \in occupiedCells(board) :
        /\ isValidMove(board, from, to, board[from])
        /\ LET result == resolveCombat(board[from], board[to])
           IN  /\ memories' = processBattle(memories, board[from], board[to], result.details)
               /\ call' = [op |-> "processBattle", attacker |-> board[from],
                           defender |-> board[to], result |-> result]
        /\ board' = executeMoveBoard(board, from, to)
        /\ UNCHANGED <<battle, node, sim, scores, game>>

Sync ==
    /\ memories' = sync(memories, board)
    /\ call' = [op |-> "sync"]
    /\ UNCHANGED <<board, battle, node, sim, scores, game>>

MemNext == MemReset \/ MarkPieceMoved \/ MarkBackRowPieces \/ ProcessBattle \/ Sync

SpecMemory == MemInit /\ [][MemNext]_vars

\* C3: across the updates after reset no piece's minRank decreases and no
\* piece's maxRank increases
C3_RanksOnlyNarrow ==
    [][call'.op # "reset" =>
          \A id \in DOMAIN memories :
              /\ memories'[id].minRank >= memories[id].minRank
              /\ memories'[id].maxRank <= memories[id].maxRank]_vars

C5_MarkedIffUnmovedBackRow ==
    [][call'.op = "processBattle" =>
          LET d == call'.defender.id
              r == call'.result
          IN  ~memories[d].isConfirmedMine =>
                  (memories'[d].isConfirmedMine <=>
                      /\ call'.attacker.type # Engineer
                      /\ ~r.attackerSurvives /\ r.defenderSurvives
                      /\ memories[d].isInBackRows
                      /\ ~memories[d].hasMoved)]_vars

\* C6: when processBattle marks the defender confirmed-Mine, the defender's
\* possibleTypes is {Mine} when processBattle returns
C6_MarkedMineHasMineOnly ==
    [][(/\ call'.op = "processBattle"
        /\ ~memories[call'.defender.id].isConfirmedMine
        /\ memories'[call'.defender.id].isConfirmedMine) =>
          memories'[call'.defender.id].possibleTypes = {Mine}]_vars

----------------------------------------------------------------------------
(* The minimax search of one AI turn: getBestMoveWithMinimax at the root,
   minimax below it.  A state is one node of the search tree. *)

\* four seats late in a game; seat 0 is down to its Flag and a Mine
FourSeatRoster ==
    { [cell |-> <<16, 7>>, piece |-> Piece(1, Flag, 0, FALSE)],
      [cell |-> <<15, 7>>, piece |-> Piece(2, Mine, 0, FALSE)],
      [cell |-> <<0, 9>>, piece |-> Piece(3, Flag, 2, FALSE)],
      [cell |-> <<5, 8>>, piece |-> Piece(4, Regiment, 2, FALSE)],
      [cell |-> <<6, 8>>, piece |-> Piece(5, Battalion, 1, FALSE)],
      [cell |-> <<6, 6>>, piece |-> Piece(6, Company, 3, FALSE)] }

\* four seats, each with its Flag in a Headquarters and one piece at the centre
CentreRoster ==
    { [cell |-> <<16, 9>>, piece |-> Piece(1, Flag, 0, FALSE)],
      [cell |-> <<10, 8>>, piece |-> Piece(2, Division, 0, FALSE)],
      [cell |-> <<7, 16>>, piece |-> Piece(3, Flag, 1, FALSE)],
      [cell |-> <<6, 8>>, piece |-> Piece(4, Company, 1, FALSE)],
      [cell |-> <<0, 7>>, piece |-> Piece(5, Flag, 2, FALSE)],
      [cell |-> <<5, 8>>, piece |-> Piece(6, Brigade, 2, FALSE)],
      [cell |-> <<9, 0>>, piece |-> Piece(7, Flag, 3, FALSE)],
      [cell |-> <<8, 6>>, piece |-> Piece(8, Engineer, 3, FALSE)] }

SearchRosters == {MemRoster, FourSeatRoster, CentreRoster}

\* SmartAI.getBestMove is entered for a seat that has a legal move
SearchInit ==
    /\ \E roster \in SearchRosters, me \in PlayerId :
          /\ board = placePieces(roster)
          /\ Len(possibleMoves(board, me)) > 0
          /\ node = [seat |-> me, root |-> me, depth |-> searchDepth(board, me),
                     ply |-> 0, alpha |-> 0 - Infinity, beta |-> Infinity,
                     isMax |-> TRUE]
    /\ memories = reset(piecesOn(board))
    /\ sim = NoSim
    /\ scores = NoScores
    /\ game = NoGame
    /\ battle = NoBattle
    /\ call = NoCall

\* a clone that hands back the board object it was given
cloneBoardSameRows(heap, ref) == [heap |-> heap, ref |-> ref]

\* heap holds the board objects of the search, the caller's first; cloneBoard
\* copies every row, cell and piece record of the board at ref into a new
\* object that shares none of them with its original
cloneBoard(heap, ref) == [heap |-> Append(heap, heap[ref]), ref |-> Len(heap) + 1]

\* the node reached by simulating move for the seat mover, searched to depth
\* with the window alpha, beta: the node's board is cloned and simulateMove
\* writes into the cells of the clone
childNode(move, mover, depth, alpha, beta) ==
    \E clone \in {cloneBoard(IF sim.done THEN sim.heap ELSE <<board>>,
                              IF sim.done THEN sim.ref ELSE 1)} :
    \E simBoard \in {simulateMove(clone.heap[clone.ref], move)} :
    \E nextPlayer \in {getNextActivePlayer(simBoard, mover)} :
        /\ board' = simBoard
        /\ node' = [seat |-> nextPlayer, root |-> node.root, depth |-> depth,
                    ply |-> node.ply + 1, alpha |-> alpha, beta |-> beta,
                    isMax |-> isOurSide(nextPlayer, node.root)]
        /\ sim' = [done |-> TRUE, from |-> move.from, to |-> move.to,
                   mover |-> mover, before |-> board,
                   heap |-> [clone.heap EXCEPT ![clone.ref] = simBoard],
                   ref |-> clone.ref]

\* one pass of the loop of getBestMoveWithMinimax: a root move is simulated
\* and minimax scores the board it leaves
BestMoveStep ==
    /\ node.ply = 0
    /\ LET moves == topMovesToSearch(board, possibleMoves(board, node.root), node.root)
       IN  \E i \in DOMAIN moves :
              /\ childNode(moves[i], node.root, node.depth - 1, 0 - Infinity, Infinity)
              /\ scores' =
                    [done |-> TRUE,
                     depth |-> node'.depth,
                     pruned |-> minimax(board', node'.depth, 0 - Infinity, Infinity,
                                        node'.isMax, node'.seat, node.root, memories),
                     full |-> minimaxFullWidth(board', node'.depth, node'.isMax,
                                               node'.seat, node.root, memories)]
    /\ UNCHANGED <<memories, battle, call, game>>

\* one pass of the loop of minimax at a node below the root: a move the loop
\* reaches before it breaks is simulated and searched one ply deeper
MinimaxStep ==
    /\ node.ply >= 1
    /\ node.depth > 0
    /\ LET moves == getPlayerMoves(board, node.seat)
           kids == searched(board, movesToEvaluate(board, moves), 1, node.depth,
                            node.alpha, node.beta, node.isMax,
                            node.seat, node.root, memories)
       IN  \E i \in DOMAIN kids :
              childNode(kids[i].move, node.seat, node.depth - 1,
                        kids[i].alpha, kids[i].beta)
    /\ UNCHANGED <<memories, battle, call, scores, game>>

SearchNext == BestMoveStep \/ MinimaxStep

SpecSearch == SearchInit /\ [][SearchNext]_vars

\* C1: for a move onto an occupied cell the board simulateMove leaves is the
\* board the move leaves when committed with resolveCombat
C1_SimulateMatchesCommit ==
    (sim.done /\ sim.before[sim.to] # NoPiece) =>
        board = commitMove(sim.before, sim.from, sim.to, sim.before[sim.from],
                           resolveCombat(sim.before[sim.from], sim.before[sim.to]))

\* C2: every move the search expands is legal under isValidMove on the
\* board of the node it is expanded at
C2_ExpandedMovesAreLegal ==
    sim.done => isValidMove(sim.before, sim.from, sim.to, sim.before[sim.from])

\* C7: the score of minimax with its cut-offs equals the score of the same
\* recursion without them, at depth 2 (and at depth 1)
C7_PruningKeepsScore ==
    scores.done => scores.pruned = scores.full

\* a depth-2 search has been scored and the loop of one of its nodes broke off
\* before its last move
C7_Witness ==
    /\ scores.done /\ scores.depth = 2
    /\ node.ply = 2 /\ node.depth = 1
    /\ LET moves == movesToEvaluate(board, getPlayerMoves(board, node.seat))
       IN  /\ Len(moves) > 0
           /\ Len(searched(board, moves, 1, node.depth, node.alpha, node.beta,
                           node.isMax, node.seat, node.root, memories)) < Len(moves)

\* a seat never found to have a move
hasLegalMoveNever(b, pl) == FALSE

\* a seat has a legal move when one of its pieces has one under isValidMove
hasLegalMove(b, pl) ==
    \E p \in occupiedCells(b) :
        b[p].player = pl /\ \E t \in Cells : isValidMove(b, p, t, b[p])

\* C8: the seat to act after a simulated move is the first seat after the
\* mover, in cyclic order, that has a legal move, and it maximizes iff it is
\* the root or the root's teammate
C8_NextSeatIsFirstWithLegalMove ==
    (sim.done /\ \E pl \in PlayerId : hasLegalMove(board, pl)) =>
        /\ \E i \in 1 .. 4 :
              /\ node.seat = (sim.mover + i) % 4
              /\ hasLegalMove(board, node.seat)
              /\ \A j \in 1 .. i - 1 : ~hasLegalMove(board, (sim.mover + j) % 4)
        /\ node.isMax <=> (node.seat = node.root \/ node.seat = (node.root + 2) % 4)

----------------------------------------------------------------------------
(* isValidMove asked about one move of one piece on one board *)

\* validateSetup's getRelativeRow: the distance of a cell from its seat's back edge
getRelativeRow(r, c, p) ==
    IF p = 0 THEN 16 - r ELSE IF p = 2 THEN r ELSE IF p = 3 THEN c ELSE 16 - c

\* a Flag stays in the Headquarters and a Mine in the last two rows it was set
\* up on, since neither ever moves; any other piece may stand anywhere
canStandOn(t, seat, p) ==
    /\ t = Flag => (p \in hqs /\ getHQOwner(p[1], p[2]) = seat)
    /\ t = Mine =>
          /\ \/ seat = 0 /\ isBottomZone(p[1], p[2])
             \/ seat = 2 /\ isTopZone(p[1], p[2])
             \/ seat = 3 /\ isLeftZone(p[1], p[2])
             \/ seat = 1 /\ isRightZone(p[1], p[2])
          /\ p \notin campsites
          /\ getRelativeRow(p[1], p[2], seat) <= 1

Sgn(n) == IF n > 0 THEN 1 ELSE IF n < 0 THEN -1 ELSE 0

\* the cell next to `from` on the way to `to`
towards(from, to) == <<from[1] + Sgn(to[1] - from[1]), from[2] + Sgn(to[2] - from[2])>>

NoOther == [at |-> <<-1, -1>>, seat |-> -1]

\* one asked move: the mover on `from`, at most one other piece on the board
asked(from, to, piece, other) ==
    /\ board = [p \in Cells |-> IF p = from THEN piece
                                ELSE IF other.at = p THEN Piece(2, Platoon, other.seat, FALSE)
                                ELSE NoPiece]
    /\ call = [op |-> "isValidMove", from |-> from, to |-> to, piece |-> piece,
               done |-> FALSE, valid |-> FALSE]

\* the cells a piece can be found on: isValidMove lets none stop on the
\* pass-through track of the central zone
StandCells == { p \in Cells : inCentre(p) => isCentralStation(p[1], p[2]) }

\* every move of a lone Platoon or Engineer of seat 0
OpenBoards ==
    \E from \in StandCells, to \in Cells, t \in {Platoon, Engineer} :
        asked(from, to, Piece(1, t, 0, FALSE), NoOther)

\* where the moves of CrowdedBoards start: a central station,
\* cells next to an own, a teammate's and an enemy Headquarters, a corner of
\* the railway, a cell of the side rail, an own Headquarters, a Campsite
Froms ==
    { <<6, 8>>, <<15, 7>>, <<1, 7>>, <<7, 15>>, <<11, 6>>, <<13, 6>>, <<16, 7>>, <<13, 8>> }

\* there is no second piece, or it stands on the destination, as any seat's,
\* or on the first or last cell a straight move passes over, as seat 1's
others(from, to) ==
    {NoOther} \cup { [at |-> c, seat |-> k] : c \in {to} \cap StandCells, k \in PlayerId }
        \cup IF isStraightLine(from, to) /\ towards(from, to) # to
             THEN { [at |-> c, seat |-> 1] : c \in {towards(from, to), towards(to, from)} \cap StandCells }
             ELSE {}

\* every move of a piece of seat 0, of any type, from one of Froms, with at
\* most one other piece on the board
CrowdedBoards ==
    \E from \in Froms, to \in Cells, t \in PieceType :
        /\ to # from
        /\ canStandOn(t, 0, from)
        /\ \E o \in others(from, to) : asked(from, to, Piece(1, t, 0, FALSE), o)

\* every step of a Platoon of any seat from a cell next to a Headquarters,
\* onto an empty cell or a piece of any seat
SeatBoards ==
    \E from \in {<<15, 7>>, <<1, 7>>, <<7, 1>>, <<7, 15>>}, to \in Cells, seat \in PlayerId :
        /\ areAdjacent(from, to)
        /\ \E o \in {NoOther} \cup { [at |-> c, seat |-> k] : c \in {to} \cap StandCells, k \in PlayerId } :
              asked(from, to, Piece(1, Platoon, seat, FALSE), o)

MoveInit ==
    /\ OpenBoards \/ CrowdedBoards \/ SeatBoards
    /\ memories = << >>
    /\ battle = NoBattle
    /\ node = NoNode
    /\ sim = NoSim
    /\ scores = NoScores
    /\ game = NoGame

\* a query that carries the asked move out on the board it was handed
IsValidMoveMovesPiece ==
    /\ call.op = "isValidMove"
    /\ ~call.done
    /\ call' = [call EXCEPT !.done = TRUE,
                            !.valid = isValidMove(board, call.from, call.to, call.piece)]
    /\ board' = IF call'.valid
                THEN [board EXCEPT ![call.from] = NoPiece, ![call.to] = call.piece]
                ELSE board
    /\ UNCHANGED <<memories, battle, node, sim, scores, game>>

\* handleSquareClick / getPossibleMoves: "isValidMove(board, from, to, piece)"
IsValidMove ==
    /\ call.op = "isValidMove"
    /\ ~call.done
    /\ call' = [call EXCEPT !.done = TRUE,
                            !.valid = isValidMove(board, call.from, call.to, call.piece)]
    /\ UNCHANGED <<board, memories, battle, node, sim, scores, game>>

MoveNext == IsValidMove

SpecMove == MoveInit /\ [][MoveNext]_vars

\* the move of the finished query
asking == call.op = "isValidMove" /\ call.done

\* C14: isValidMove is false for every destination whose row and column both
\* lie in 6..10 and that is not one of the nine central stations (row and
\* column both in {6, 8, 10}), for every piece type, for adjacent steps and
\* railway moves, whether or not the path is clear
C14_CentreTrackIsNoDestination ==
    ( /\ asking
      /\ call.to[1] \in 6 .. 10 /\ call.to[2] \in 6 .. 10
      /\ ~(call.to[1] \in {6, 8, 10} /\ call.to[2] \in {6, 8, 10}) ) =>
        ~call.valid

\* an Engineer alone on the board, on the railway at (11,8), asked to stop on
\* (9,8) with (10,8) empty
C14_Witness ==
    /\ asking
    /\ call.piece.type = Engineer
    /\ call.from = <<11, 8>> /\ call.to = <<9, 8>>
    /\ board[<<10, 8>>] = NoPiece /\ board[<<9, 8>>] = NoPiece
    /\ ~call.valid

\* C15 as stated: a piece on (6,8) asked to stop on (8,8) is refused even
\* when (7,8) and (8,8) are empty
C15_StopOnCentreRefused ==
    ( /\ asking
      /\ call.from = <<6, 8>> /\ call.to = <<8, 8>>
      /\ board[<<7, 8>>] = NoPiece /\ board[<<8, 8>>] = NoPiece ) =>
        ~call.valid

\* C15 amended: (8,8) is the middle one of the nine central stations, so a
\* piece on (6,8) asked to stop on (8,8) is accepted when (7,8) and (8,8) are
\* empty; the pass-through cell between them, (7,8), is refused as a
\* destination whether or not it is empty
C15_StopOnTrackRefused ==
    (asking /\ call.from = <<6, 8>>) =>
        /\ (call.to = <<8, 8>> /\ board[<<7, 8>>] = NoPiece /\ board[<<8, 8>>] = NoPiece)
              => call.valid
        /\ call.to = <<7, 8>> => ~call.valid

C15_Witness ==
    /\ asking
    /\ call.from = <<6, 8>> /\ call.to = <<8, 8>>
    /\ call.piece.type = Commander
    /\ board[<<7, 8>>] = NoPiece /\ board[<<8, 8>>] = NoPiece
    /\ call.valid

Dirs == { <<1, 0>>, <<-1, 0>>, <<0, 1>>, <<0, -1>> }

\* cell p carries track running in direction d
trackAlong(p, d) ==
    IF d[1] # 0 THEN isVerticalRailway(p[1], p[2]) ELSE isHorizontalRailway(p[1], p[2])

\* the cells of the straight run of track from p in direction d, p included,
\* up to the first cell that holds a piece and is not the destination
RECURSIVE run(_, _, _, _)
run(b, to, p, d) ==
    LET n == <<p[1] + d[1], p[2] + d[2]>>
    IN  IF /\ trackAlong(p, d) /\ n \in Cells /\ trackAlong(n, d)
           /\ (b[n] = NoPiece \/ n = to)
        THEN {p} \cup run(b, to, n, d)
        ELSE {p}

\* the cells a straight run from a cell of S ends on
legs(b, to, S) == UNION { run(b, to, p, d) : p \in S, d \in Dirs }

\* S and the cells one curved junction away from S
hops(b, to, S) ==
    S \cup { q \in UNION { getCornerNeighbors(p[1], p[2]) : p \in S } :
               q \in Cells /\ (b[q] = NoPiece \/ q = to) }

\* `to` is joined to `from` by a route of empty railway cells through two
\* junctions and by none through fewer, a junction being a turn on a cell or
\* a curved corner
needsTwoJunctions(b, from, to) ==
    LET direct == legs(b, to, {from})
        one == legs(b, to, hops(b, to, direct))
    IN  /\ to \notin direct
        /\ to \notin one
        /\ to \in legs(b, to, hops(b, to, one))

\* the rules of isValidMove about the destination and the mover alone let
\* the move through
permitted ==
    /\ call.piece.type \notin {Flag, Mine}
    /\ board[call.to] = NoPiece \/ board[call.to].player % 2 # call.piece.player % 2
    /\ (call.to[1] \in 6 .. 10 /\ call.to[2] \in 6 .. 10) =>
          (call.to[1] \in {6, 8, 10} /\ call.to[2] \in {6, 8, 10})

\* C16: between railway cells joined by a route of empty railway cells with
\* two changes of direction and by none with fewer, to a destination the
\* other rules permit, isValidMove is true for an Engineer and false for
\* every other piece
C16_TwoTurnsForEngineerOnly ==
    ( /\ asking
      /\ isRailwayNode(call.from[1], call.from[2])
      /\ isRailwayNode(call.to[1], call.to[2])
      /\ call.piece.type = Engineer => permitted
      /\ needsTwoJunctions(board, call.from, call.to) ) =>
        (call.valid <=> call.piece.type = Engineer)

\* an Engineer on (13,6) rides up to (11,6), across to (11,10) and down to (13,10)
C16_Witness ==
    /\ asking
    /\ call.piece.type = Engineer
    /\ call.from = <<13, 6>> /\ call.to = <<13, 10>>
    /\ needsTwoJunctions(board, call.from, call.to)
    /\ call.valid

\* the cells of the straight segment from `from` to `to`, both included
segment(from, to) ==
    (Min(from[1], to[1]) .. Max(from[1], to[1])) \X (Min(from[2], to[2]) .. Max(from[2], to[2]))

\* C17: a non-Engineer's move over two or more cells between railway cells of
\* one row or column is accepted only if every cell of the segment, the
\* endpoints included, exists and carries track of the segment's orientation
\* and every cell between the endpoints is empty
C17_StraightRunOnOwnTrack ==
    ( /\ asking
      /\ call.piece.type # Engineer
      /\ isRailwayNode(call.from[1], call.from[2])
      /\ isRailwayNode(call.to[1], call.to[2])
      /\ \/ call.from[1] = call.to[1] /\ Abs(call.from[2] - call.to[2]) >= 2
         \/ call.from[2] = call.to[2] /\ Abs(call.from[1] - call.to[1]) >= 2
      /\ call.valid ) =>
        \A p \in segment(call.from, call.to) :
            /\ p \in Cells
            /\ trackAlong(p, <<Sgn(call.to[1] - call.from[1]), Sgn(call.to[2] - call.from[2])>>)
            /\ p \notin {call.from, call.to} => board[p] = NoPiece

\* a Commander on (13,6) rides the vertical track to (11,6) over the empty (12,6)
C17_Witness ==
    /\ asking
    /\ call.piece.type = Commander
    /\ call.from = <<13, 6>> /\ call.to = <<11, 6>>
    /\ board[<<12, 6>>] = NoPiece
    /\ call.valid

\* the two Headquarters cells at the back of a seat's zone
headquartersOf(seat) ==
    IF seat = 0 THEN { <<16, 7>>, <<16, 9>> }
    ELSE IF seat = 1 THEN { <<7, 16>>, <<9, 16>> }
    ELSE IF seat = 2 THEN { <<0, 7>>, <<0, 9>> }
    ELSE { <<7, 0>>, <<9, 0>> }

\* C18: isValidMove is false whenever the destination is a Headquarters of
\* the mover's seat or of its teammate seat, (seat + 2) mod 4, for every
\* piece type, whether the Headquarters is empty or occupied
C18_NoEntryToOwnTeamHeadquarters ==
    ( /\ asking
      /\ call.to \in headquartersOf(call.piece.player)
                        \cup headquartersOf((call.piece.player + 2) % 4) ) =>
        ~call.valid

\* a Platoon of seat 2 next to the empty Headquarters (16,7) of its teammate
C18_Witness ==
    /\ asking
    /\ call.piece.player = 2
    /\ call.from = <<15, 7>> /\ call.to = <<16, 7>>
    /\ board[<<16, 7>>] = NoPiece
    /\ ~call.valid

\* C19: isValidMove is false whenever the destination is a Campsite that
\* holds a piece, whichever seat owns the piece and whatever the mover's type
\* or route
C19_OccupiedCampsiteIsSafe ==
    (asking /\ call.to \in campsites /\ board[call.to] # NoPiece) => ~call.valid

\* a Commander of seat 0 on (15,7) against an enemy piece in the Campsite (14,7)
C19_Witness ==
    /\ asking
    /\ call.piece.type = Commander
    /\ call.from = <<15, 7>> /\ call.to = <<14, 7>>
    /\ board[<<14, 7>>] # NoPiece /\ board[<<14, 7>>].player = 1
    /\ ~call.valid

\* C20: isValidMove is false whenever the destination holds a piece of the
\* mover's seat or of its teammate seat (0 with 2, 1 with 3)
C20_NoAttackOnOwnTeam ==
    ( /\ asking
      /\ board[call.to] # NoPiece
      /\ call.to # call.from
      /\ board[call.to].player % 2 = call.piece.player % 2 ) =>
        ~call.valid

\* a Platoon of seat 1 on (7,15) against a piece of seat 3 next to it on (6,15)
C20_Witness ==
    /\ asking
    /\ call.piece.player = 1
    /\ call.from = <<7, 15>> /\ call.to = <<6, 15>>
    /\ board[<<6, 15>>] # NoPiece /\ board[<<6, 15>>].player = 3
    /\ ~call.valid

\* C21: isValidMove is false for every destination when the moving piece is
\* a Flag or a Mine, or when the source cell is a Headquarters
C21_FlagMineAndHeadquartersStay ==
    ( /\ asking
      /\ \/ call.piece.type \in {Flag, Mine}
         \/ \E seat \in PlayerId : call.from \in headquartersOf(seat) ) =>
        ~call.valid

\* a Commander parked in the Headquarters (16,7), asked to step out onto the
\* empty (15,7)
C21_Witness ==
    /\ asking
    /\ call.piece.type = Commander
    /\ call.from = <<16, 7>> /\ call.to = <<15, 7>>
    /\ board[<<15, 7>>] = NoPiece
    /\ ~call.valid

----------------------------------------------------------------------------
(* checkGameOver asked about one board and one list of dead seats *)

\* late in a game: seat 0 with a Platoon parked in its second Headquarters,
\* seat 1 with a Mine, every seat with its Flag and one piece in the field
OverInit ==
    /\ \E left \in SUBSET
        { [cell |-> <<16, 7>>, piece |-> Piece(1, Flag, 0, FALSE)],
          [cell |-> <<16, 9>>, piece |-> Piece(2, Platoon, 0, FALSE)],
          [cell |-> <<12, 8>>, piece |-> Piece(3, Commander, 0, FALSE)],
          [cell |-> <<7, 16>>, piece |-> Piece(4, Flag, 1, FALSE)],
          [cell |-> <<8, 15>>, piece |-> Piece(5, Mine, 1, FALSE)],
          [cell |-> <<8, 12>>, piece |-> Piece(6, Regiment, 1, FALSE)],
          [cell |-> <<0, 9>>, piece |-> Piece(7, Flag, 2, FALSE)],
          [cell |-> <<4, 8>>, piece |-> Piece(8, Engineer, 2, FALSE)],
          [cell |-> <<9, 0>>, piece |-> Piece(9, Flag, 3, FALSE)],
          [cell |-> <<8, 4>>, piece |-> Piece(10, Bomb, 3, FALSE)] },
          deadPlayers \in SUBSET PlayerId :
          \* a game goes on only while each team has a live seat
          /\ ~({0, 2} \subseteq deadPlayers) /\ ~({1, 3} \subseteq deadPlayers)
          \* one move takes at most one Flag, by a Bomb if the taker is gone
          \* as well, or else the last free piece of at most two seats
          /\ Cardinality({ seat \in PlayerId \ deadPlayers :
                ~\E e \in left : e.piece.player = seat /\ e.piece.type = Flag }) <= 1
          /\ \A seat \in PlayerId \ deadPlayers :
                (\E e \in left : e.piece.player = seat) =>
                    \/ \E e \in left : e.piece.player = seat /\ e.piece.type = Flag
                    \/ \E e \in left : /\ e.piece.player = seat
                                        /\ e.piece.type \notin {Flag, Mine}
                                        /\ e.cell \notin hqs
          /\ \A seat \in PlayerId \ deadPlayers : \E e \in left : e.piece.player = seat
          /\ Cardinality({ seat \in PlayerId \ deadPlayers :
                \/ ~\E e \in left : e.piece.player = seat /\ e.piece.type = Flag
                \/ ~\E e \in left : /\ e.piece.player = seat
                                     /\ e.piece.type \notin {Flag, Mine}
                                     /\ e.cell \notin hqs }) <= 2
          /\ board = placePieces(left)
          /\ game = [status |-> "playing", deadPlayers |-> deadPlayers,
                     checked |-> FALSE, gameOverCheck |-> checkGameOver(EmptyBoard, PlayerId)]
    /\ memories = << >>
    /\ battle = NoBattle
    /\ call = NoCall
    /\ node = NoNode
    /\ sim = NoSim
    /\ scores = NoScores

\* executeMove / runSingleGame: "checkGameOver(newBoard, deadPlayers)"
CheckGameOver ==
    /\ ~game.checked
    /\ game' = [game EXCEPT !.checked = TRUE,
                            !.gameOverCheck = checkGameOver(board, game.deadPlayers)]
    /\ UNCHANGED <<board, memories, battle, call, node, sim, scores>>

SpecOver == OverInit /\ [][CheckGameOver]_vars

\* C22: checkGameOver reports a seat that is not already dead as newly dead
\* exactly when the seat has no Flag on the board or none of its pieces
\* other than Flag and Mine has a legal move
C22_NewlyDeadIffFlaglessOrImmobile ==
    game.checked =>
        \A seat \in PlayerId \ game.deadPlayers :
            seat \in game.gameOverCheck.newDeadPlayers <=>
                \/ ~\E p \in Cells : board[p].player = seat /\ board[p].type = Flag
                \/ \A p \in occupiedCells(board) :
                        (board[p].player = seat /\ board[p].type \notin {Flag, Mine}) =>
                            \A t \in Cells : ~isValidMove(board, p, t, board[p])

\* seat 0 keeps its Flag and the Platoon parked in a Headquarters, has lost
\* its Commander, and is reported dead
C22_Witness ==
    /\ game.checked
    /\ 0 \notin game.deadPlayers
    /\ board[<<16, 7>>].type = Flag /\ board[<<16, 9>>].type = Platoon
    /\ board[<<12, 8>>] = NoPiece
    /\ 0 \in game.gameOverCheck.newDeadPlayers

\* C23: checkGameOver returns isOver = true exactly when, previously dead and
\* newly dead seats counted together, seats 0 and 2 are both dead or seats 1
\* and 3 are both dead
C23_OverIffWholeTeamDead ==
    game.checked =>
        LET dead == game.deadPlayers \cup game.gameOverCheck.newDeadPlayers
        IN  game.gameOverCheck.isOver <=> ({0, 2} \subseteq dead \/ {1, 3} \subseteq dead)

\* seat 0 died earlier, seat 2 is alive, both enemies are alive: no end
C23_Witness ==
    /\ game.checked
    /\ game.deadPlayers = {0}
    /\ game.gameOverCheck.newDeadPlayers = {}
    /\ ~game.gameOverCheck.isOver

\* C28: after processBattle for a battle with a winner whose loser belongs to
\* another seat, the winner's defeatedOurRank is the maximum of its previous
\* value and the loser's rank; no piece's defeatedOurRank decreases between
\* resets
C28_DefeatedOurRankIsRunningMax ==
    [][ /\ call'.op = "processBattle" =>
            LET winner == call'.result.details.winner
                loser == call'.result.details.loser
            IN  (winner # NoPiece /\ loser.player # winner.player) =>
                    memories'[winner.id].defeatedOurRank =
                        Max(memories[winner.id].defeatedOurRank, loser.type)
        /\ call'.op # "reset" =>
            \A id \in DOMAIN memories \cap DOMAIN memories' :
                memories'[id].defeatedOurRank >= memories[id].defeatedOurRank ]_vars

\* a winner that had beaten a higher rank before keeps the higher rank
C28_Witness ==
    /\ call.op = "processBattle"
    /\ call.result.details.winner # NoPiece
    /\ call.result.details.loser.player # call.result.details.winner.player
    /\ call.result.details.winner.id \in DOMAIN memories
    /\ memories[call.result.details.winner.id].defeatedOurRank > call.result.details.loser.type

----------------------------------------------------------------------------
(* Board.tsx : the setup phase, START GAME, surrender and the review *)

\* the roster of one seat
INITIAL_PIECES ==
    [t \in PieceType |->
        IF t \in {Commander, Corps, Flag} THEN 1
        ELSE IF t \in {Company, Platoon, Engineer, Mine} THEN 3
        ELSE 2]

\* generateSmartSetup with its random draws as parameters: the Headquarters
\* of the Flag, the 20 % Platoon in the other Headquarters, and k, the cut at
\* which each shuffle leaves its array; the id `${pid}-${type}-${i}` is
\* rendered as a number
generateSmartSetup(b, pid, flagSlotIndex, usePlatoon, k) ==
    LET shuffle(a) ==
            IF Len(a) = 0 THEN a
            ELSE SubSeq(a, (k % Len(a)) + 1, Len(a)) \o SubSeq(a, 1, k % Len(a))
        inZone(p) ==
            /\ nodeType(p) # "campsite"
            /\ \/ pid = 0 /\ isBottomZone(p[1], p[2])
               \/ pid = 2 /\ isTopZone(p[1], p[2])
               \/ pid = 3 /\ isLeftZone(p[1], p[2])
               \/ pid = 1 /\ isRightZone(p[1], p[2])
        relRow(p) == getRelativeRow(p[1], p[2], pid)
        \* getPlayerSlots
        hqSlots == SelectSeq(CellSeq, LAMBDA p : inZone(p) /\ nodeType(p) = "hq")
        mineSlots == SelectSeq(CellSeq, LAMBDA p : inZone(p) /\ nodeType(p) # "hq" /\ relRow(p) <= 1)
        frontSlots == SelectSeq(CellSeq, LAMBDA p : inZone(p) /\ nodeType(p) # "hq" /\ relRow(p) = 5)
        bombSlots == SelectSeq(CellSeq, LAMBDA p :
                        inZone(p) /\ nodeType(p) # "hq" /\ relRow(p) > 1 /\ relRow(p) # 5)
        piece(t, i) == Piece(pid * 1000 + t * 10 + i + 1, t, pid, FALSE)
        copies(t, from) == [i \in 1 .. (INITIAL_PIECES[t] - from) |-> piece(t, from + i - 1)]
        \* 1. the Flag and the defender of the other Headquarters
        hqPieces == << piece(Flag, 0), IF usePlatoon THEN piece(Platoon, 0) ELSE piece(Mine, 2) >>
        hqPlaces == << hqSlots[flagSlotIndex + 1], hqSlots[2 - flagSlotIndex] >>
        \* 2. the remaining Mines
        mines == IF usePlatoon THEN copies(Mine, 0) ELSE << piece(Mine, 0), piece(Mine, 1) >>
        shuffledMineSlots == shuffle(mineSlots)
        \* 3. the Bombs
        bombs == copies(Bomb, 0)
        shuffledBombSlots ==
            shuffle(bombSlots \o SubSeq(shuffledMineSlots, Len(mines) + 1, Len(shuffledMineSlots)))
        \* 4. Commander and Corps in the front and middle rows, then the others
        normalSlots ==
            frontSlots \o SubSeq(shuffledBombSlots, Len(bombs) + 1, Len(shuffledBombSlots))
        isFrontMidSlot(p) ==
            IF pid = 0 THEN p[1] >= 11 /\ p[1] <= 14
            ELSE IF pid = 2 THEN p[1] >= 2 /\ p[1] <= 5
            ELSE IF pid = 1 THEN p[2] >= 11 /\ p[2] <= 14
            ELSE p[2] >= 2 /\ p[2] <= 5
        shuffledFrontMid == shuffle(SelectSeq(normalSlots, isFrontMidSlot))
        shuffledBack == shuffle(SelectSeq(normalSlots, LAMBDA p : ~isFrontMidSlot(p)))
        shuffledRemaining ==
            shuffle(SubSeq(shuffledFrontMid, 3, Len(shuffledFrontMid)) \o shuffledBack)
        remainingOthers ==
            copies(Division, 0) \o copies(Brigade, 0) \o copies(Regiment, 0)
                \o copies(Battalion, 0) \o copies(Company, 0)
                \o copies(Platoon, IF usePlatoon THEN 1 ELSE 0) \o copies(Engineer, 0)
        pieces == hqPieces \o mines \o bombs
                    \o << piece(Commander, 0), piece(Corps, 0) >> \o remainingOthers
        places == hqPlaces \o SubSeq(shuffledMineSlots, 1, Len(mines))
                    \o SubSeq(shuffledBombSlots, 1, Len(bombs))
                    \o SubSeq(shuffledFrontMid, 1, 2)
                    \o SubSeq(shuffledRemaining, 1, Len(remainingOthers))
    IN  [p \in Cells |->
            IF \E i \in 1 .. Len(places) : places[i] = p
            THEN pieces[CHOOSE i \in 1 .. Len(places) : places[i] = p]
            ELSE b[p]]

validateSetup(b, playerId) ==
    \A p \in occupiedCells(b) :
        b[p].player = playerId =>
            /\ b[p].type = Flag => nodeType(p) = "hq"
            /\ b[p].type = Mine => getRelativeRow(p[1], p[2], playerId) <= 1
            /\ b[p].type = Bomb => getRelativeRow(p[1], p[2], playerId) # 5

\* no entry of the move history yet
NoMove ==
    [player |-> -1, from |-> <<0, 0>>, to |-> <<0, 0>>, piece |-> NoPiece,
     capturedPiece |-> NoPiece, battleResult |-> resolveCombat(NoPiece, NoPiece)]

\* startNewGame, run once when the Board is mounted
SetupInit ==
    /\ \E f0 \in {0, 1}, u0 \in BOOLEAN, k0 \in {0, 2},
          f \in {0, 1}, u \in BOOLEAN, k \in {0, 3} :
          board = generateSmartSetup(generateSmartSetup(generateSmartSetup(
                      generateSmartSetup(EmptyBoard, 0, f0, u0, k0),
                      1, f, u, k), 2, 1 - f, ~u, k), 3, f, u, k0)
    /\ game = [status |-> "setup", loop |-> "interactive", currentPlayer |-> 0,
               deadPlayers |-> {}, winnerTeam |-> -1, replayIndex |-> -1,
               postPlayerDeathMoves |-> 0, turns |-> 0, last |-> NoMove]
    /\ memories = << >>
    /\ battle = NoBattle
    /\ call = NoCall
    /\ node = NoNode
    /\ sim = NoSim
    /\ scores = NoScores

\* handleNodeClick in the setup phase: with one of seat 0's pieces selected,
\* a click on a cell of the rows from 11 on swaps the two cells' pieces
SetupSwap ==
    /\ game.status = "setup" /\ game.replayIndex = -1
    /\ \E selectedPos \in { <<16, 7>>, <<15, 7>>, <<11, 6>>, <<12, 7>> },
          pos \in { <<16, 7>>, <<15, 7>>, <<11, 6>>, <<12, 7>> } :
          /\ board[selectedPos].player = 0
          /\ board' = [board EXCEPT ![selectedPos] = board[pos], ![pos] = board[selectedPos]]
    /\ UNCHANGED <<memories, battle, call, node, sim, scores, game>>

\* startGame, the START GAME button of the setup panel
StartGame ==
    /\ game.status = "setup"
    /\ validateSetup(board, 0)
    /\ game' = [game EXCEPT !.status = "playing"]
    /\ memories' = reset(piecesOn(board))
    /\ UNCHANGED <<board, battle, call, node, sim, scores>>

\* a Surrender button shown during play whoever is to move
SurrenderAnyTurn ==
    /\ game.status = "playing" /\ game.loop = "interactive"
    /\ game' = [game EXCEPT !.deadPlayers = {0, 2}, !.winnerTeam = 1, !.status = "ended"]
    /\ UNCHANGED <<board, memories, battle, call, node, sim, scores>>

\* the surrender button, shown while it is seat 0's turn
Surrender ==
    /\ game.status = "playing" /\ game.loop = "interactive" /\ game.currentPlayer = 0
    /\ game' = [game EXCEPT !.deadPlayers = {0, 2}, !.winnerTeam = 1, !.status = "ended"]
    /\ UNCHANGED <<board, memories, battle, call, node, sim, scores>>

\* the REVIEW GAME button
ReviewGame ==
    /\ game.status = "ended" /\ game.loop = "interactive" /\ game.replayIndex = -1
    /\ game' = [game EXCEPT !.replayIndex = 0]
    /\ UNCHANGED <<board, memories, battle, call, node, sim, scores>>

\* the EXIT REVIEW button: the board becomes createInitialBoard(), and
\* initializePieces fills another board that is dropped
ExitReview ==
    /\ game.status = "ended" /\ game.replayIndex # -1
    /\ board' = EmptyBoard
    /\ game' = [game EXCEPT !.replayIndex = -1, !.status = "setup",
                            !.deadPlayers = {}, !.winnerTeam = -1, !.last = NoMove]
    /\ UNCHANGED <<memories, battle, call, node, sim, scores>>

SpecSetup ==
    SetupInit /\ [][SetupSwap \/ StartGame \/ Surrender \/ ReviewGame \/ ExitReview]_vars

\* C25: whenever a game enters the playing phase every seat has on the board
\* exactly the configured roster: one Flag and the fixed count of each other
\* rank, 25 pieces per seat
C25_RosterAtStartOfPlay ==
    [][(game.status # "playing" /\ game'.status = "playing") =>
          \A seat \in PlayerId, t \in PieceType :
              Cardinality({ p \in Cells : board'[p].player = seat /\ board'[p].type = t })
                  = INITIAL_PIECES[t]]_vars

----------------------------------------------------------------------------
(* the game loops: Board.tsx (the human and the AI seats) and
   TrainingManager.runSingleGame *)

\* the committed moves explored in one game; in the training loop it
\* stands for config.maxTurnsPerGame
MaxMoves == 2

\* a game under way: each live seat has its Flag and a piece with a move.
\* Seat 3 may have died by losing its Flag, seat 0 by losing its pieces; the
\* interactive loop has taken a dead seat's pieces off the board. emptied: the
\* interactive game started with START GAME on the empty board that EXIT
\* REVIEW leaves, the turn where the game before left it
GameInit ==
    /\ \E loop \in {"interactive", "training"}, currentPlayer \in PlayerId,
          deadPlayers \in {{}, {0}, {3}}, postPlayerDeathMoves \in {0, 1, 49},
          emptied \in BOOLEAN :
          LET roster ==
                  { [cell |-> <<16, 7>>, piece |-> Piece(1, Flag, 0, FALSE)],
                    [cell |-> <<13, 7>>, piece |-> Piece(2, Commander, 0, FALSE)],
                    [cell |-> <<12, 8>>, piece |-> Piece(3, Platoon, 0, FALSE)],
                    [cell |-> <<7, 16>>, piece |-> Piece(4, Flag, 1, FALSE)],
                    [cell |-> <<13, 8>>, piece |-> Piece(5, Bomb, 1, FALSE)],
                    [cell |-> <<0, 9>>, piece |-> Piece(7, Flag, 2, FALSE)],
                    [cell |-> <<3, 7>>, piece |-> Piece(8, Company, 2, FALSE)],
                    [cell |-> <<0, 8>>, piece |-> Piece(11, Mine, 2, FALSE)],
                    [cell |-> <<9, 0>>, piece |-> Piece(9, Flag, 3, FALSE)],
                    [cell |-> <<16, 8>>, piece |-> Piece(10, Regiment, 3, FALSE)] }
              gone(e) ==
                  /\ e.piece.player \in deadPlayers
                  /\ \/ loop = "interactive"
                     \/ e.piece.player = 3 /\ e.piece.type = Flag
                     \/ e.piece.player = 0 /\ e.piece.type # Flag
          IN  /\ postPlayerDeathMoves = 0 <=> (loop = "training" \/ 0 \notin deadPlayers)
              /\ emptied => (loop = "interactive" /\ deadPlayers = {})
              /\ board = IF emptied THEN EmptyBoard
                         ELSE placePieces({ e \in roster : ~gone(e) })
              /\ memories = reset(IF emptied THEN {} ELSE { e.piece : e \in roster })
              /\ game = [status |-> "playing", loop |-> loop, currentPlayer |-> currentPlayer,
                         deadPlayers |-> deadPlayers, winnerTeam |-> -1, replayIndex |-> -1,
                         postPlayerDeathMoves |-> postPlayerDeathMoves, turns |-> 0,
                         last |-> NoMove]
    /\ battle = NoBattle
    /\ call = NoCall
    /\ node = NoNode
    /\ sim = NoSim
    /\ scores = NoScores

\* no seat ever counted as dead
isDeadPlayerNever(pid) == FALSE

\* "deadPlayers.includes(pid)"
isDeadPlayer(pid) == pid \in game.deadPlayers

\* a count of the moves after seat 0's death that starts again at every move
currentMovesRestarted(deadPlayers, postPlayerDeathMoves) == 1

\* executeMove: "deadPlayers.includes(0) ? postPlayerDeathMoves + 1 : 1"
currentMoves(deadPlayers, postPlayerDeathMoves) ==
    IF 0 \in deadPlayers THEN postPlayerDeathMoves + 1 ELSE 1

\* executeMove(from, to); clicked: the call comes from handleNodeClick,
\* which calls nextTurn() once more after it
ExecuteMove(from, to, clicked) ==
    \E moved \in {executeMoveBoard(board, from, to)} :
    \E gameOverCheck \in {checkGameOver(moved, game.deadPlayers)} :
    \E newBoard \in {[p \in Cells |->
                        IF moved[p].player \in gameOverCheck.newDeadPlayers
                        THEN NoPiece ELSE moved[p]]} :
    LET movingPiece == board[from]
        targetPiece == board[to]
        result == resolveCombat(movingPiece, targetPiece)
        isPlayerDead == 0 \in game.deadPlayers \/ 0 \in gameOverCheck.newDeadPlayers
        moves == currentMoves(game.deadPlayers, game.postPlayerDeathMoves)
        occ == occupied(newBoard)
        strength[i \in 0 .. Len(occ)] ==
            IF i = 0 THEN 0
            ELSE strength[i - 1]
                   + (IF newBoard[occ[i]].player \in {0, 2} THEN 1 ELSE -1) * newBoard[occ[i]].type
        autoEnd == ~gameOverCheck.isOver /\ isPlayerDead /\ moves >= 50
    IN  /\ board' = newBoard
        /\ memories' = IF targetPiece # NoPiece
                       THEN processBattle(memories, movingPiece, targetPiece, result.details)
                       ELSE memories
        /\ game' = [game EXCEPT
                !.deadPlayers = @ \cup gameOverCheck.newDeadPlayers,
                !.turns = @ + 1,
                !.last = [player |-> game.currentPlayer, from |-> from, to |-> to,
                          piece |-> movingPiece, capturedPiece |-> targetPiece,
                          battleResult |-> result],
                !.status = IF gameOverCheck.isOver \/ autoEnd THEN "ended" ELSE @,
                !.winnerTeam = IF gameOverCheck.isOver THEN gameOverCheck.winnerTeam
                               ELSE IF autoEnd
                               THEN (IF strength[Len(occ)] >= 0 THEN 0 ELSE 1)
                               ELSE @,
                !.postPlayerDeathMoves =
                    IF ~gameOverCheck.isOver /\ isPlayerDead THEN moves
                    ELSE IF 0 \in gameOverCheck.newDeadPlayers THEN 1
                    ELSE @,
                !.currentPlayer =
                    IF clicked \/ ~(gameOverCheck.isOver \/ autoEnd)
                    THEN (game.currentPlayer + 1) % 4 ELSE @]
        /\ UNCHANGED <<battle, node, sim, scores>>

\* handleNodeClick during play: seat 0 has selected one of its pieces and
\* clicks one of the moves shown for it
HumanMove ==
    /\ game.status = "playing" /\ game.loop = "interactive" /\ game.replayIndex = -1
    /\ ~isDeadPlayer(0)
    /\ game.currentPlayer = 0
    /\ game.turns < MaxMoves
    /\ \E selectedPos \in occupiedCells(board) :
          /\ board[selectedPos].player = 0
          /\ \E moves \in {getPossibleMoves(board, selectedPos)} :
                \E i \in DOMAIN moves :
                    ExecuteMove(selectedPos, moves[i], TRUE)
    /\ UNCHANGED call

\* the AI turn effect, first half: the timer set for a live AI seat fires and
\* SmartAI.getBestMove, built on the board of the render that set the timer,
\* is awaited; it resolves to one of the seat's possible moves, or to null
\* when there is none. A change of currentPlayer, gameStatus, board or
\* deadPlayers before the timer fires clears it
AIThink ==
    /\ game.status = "playing" /\ game.loop = "interactive"
    /\ game.currentPlayer # 0 /\ ~isDeadPlayer(game.currentPlayer)
    /\ call = NoCall
    /\ game.turns < MaxMoves
    /\ IF hasLegalMove(board, game.currentPlayer)
       THEN \E from \in occupiedCells(board) :
              /\ board[from].player = game.currentPlayer
              /\ \E moves \in {getPossibleMoves(board, from)} :
                    \E i \in DOMAIN moves :
                        call' = [op |-> "getBestMove", seat |-> game.currentPlayer,
                                 board |-> board, found |-> TRUE,
                                 from |-> from, to |-> moves[i]]
       ELSE call' = [op |-> "getBestMove", seat |-> game.currentPlayer,
                     board |-> board, found |-> FALSE,
                     from |-> <<-1, -1>>, to |-> <<-1, -1>>]
    /\ UNCHANGED <<board, memories, battle, node, sim, scores, game>>

\* the AI turn effect, second half: the awaited search has resolved and its
\* move is committed with executeMove, or the turn is passed on a null
\* result; nothing is tested between the await and the commit. Third
\* disjunct: a dead seat's turn is passed on at once
AITurn ==
    \/ /\ call.op = "getBestMove" /\ call.found
       /\ ExecuteMove(call.from, call.to, FALSE)
       /\ call' = NoCall
    \/ /\ call.op = "getBestMove" /\ ~call.found
       /\ game' = [game EXCEPT !.currentPlayer = (@ + 1) % 4]
       /\ call' = NoCall
       /\ UNCHANGED <<board, memories, battle, node, sim, scores>>
    \/ /\ game.status = "playing" /\ game.loop = "interactive"
       /\ isDeadPlayer(game.currentPlayer)
       /\ game' = [game EXCEPT !.currentPlayer = (@ + 1) % 4]
       /\ UNCHANGED <<board, memories, battle, call, node, sim, scores>>

\* one iteration of runSingleGame's loop, and the return that follows it
TrainingTurn ==
    /\ game.status = "playing" /\ game.loop = "training"
    /\ IF game.turns >= MaxMoves
       THEN /\ game' = [game EXCEPT !.status = "ended"]
            /\ UNCHANGED <<board, memories>>
       ELSE IF \/ isDeadPlayer(game.currentPlayer)
               \/ ~hasLegalMove(board, game.currentPlayer)
       THEN /\ game' = [game EXCEPT !.currentPlayer = (@ + 1) % 4]
            /\ UNCHANGED <<board, memories>>
       ELSE \E from \in occupiedCells(board) :
              /\ board[from].player = game.currentPlayer
              /\ \E moves \in {getPossibleMoves(board, from)} :
                 \E i \in DOMAIN moves :
                    LET to == moves[i]
                        movingPiece == board[from]
                        targetPiece == board[to]
                        result == resolveCombat(movingPiece, targetPiece)
                        combat == targetPiece # NoPiece /\ targetPiece.player # game.currentPlayer
                    IN  \E newBoard \in {
                            IF combat /\ ~result.attackerSurvives /\ result.defenderSurvives
                            THEN [board EXCEPT ![from] = NoPiece]
                            ELSE IF combat /\ ~(result.attackerSurvives /\ ~result.defenderSurvives)
                            THEN [board EXCEPT ![to] = NoPiece, ![from] = NoPiece]
                            ELSE [board EXCEPT ![to] = movingPiece, ![from] = NoPiece]} :
                        \E gameOver \in {checkGameOver(newBoard, game.deadPlayers)} :
                        /\ board' = newBoard
                        /\ memories' = IF combat
                                       THEN processBattle(memories, movingPiece, targetPiece,
                                                          result.details)
                                       ELSE memories
                        /\ game' = [game EXCEPT
                                !.deadPlayers = @ \cup gameOver.newDeadPlayers,
                                !.last = [player |-> game.currentPlayer, from |-> from,
                                          to |-> to, piece |-> movingPiece,
                                          capturedPiece |-> targetPiece,
                                          battleResult |-> result],
                                !.status = IF gameOver.isOver THEN "ended" ELSE @,
                                !.winnerTeam = IF gameOver.isOver THEN gameOver.winnerTeam ELSE @,
                                !.turns = IF gameOver.isOver THEN @ ELSE @ + 1,
                                !.currentPlayer = IF gameOver.isOver THEN @ ELSE (@ + 1) % 4]
    /\ UNCHANGED <<battle, call, node, sim, scores>>

SpecGame == GameInit /\ [][HumanMove \/ AIThink \/ AITurn \/ Surrender \/ TrainingTurn]_vars

\* the game with the loop of runSingleGame running on: an iteration that can
\* be taken is taken
SpecTraining ==
    GameInit /\ [][HumanMove \/ AIThink \/ AITurn \/ Surrender \/ TrainingTurn]_vars
        /\ WF_vars(TrainingTurn)

\* C24: once a seat is recorded as eliminated no move by that seat is
\* committed for the rest of the game, in the interactive loop and in the
\* training loop
C24_DeadSeatNeverMoves ==
    [][board' # board =>
          /\ game'.last.player \notin game.deadPlayers
          /\ game'.last.piece.player \notin game.deadPlayers]_vars

\* seat 3 is dead, seat 2 has moved, and the turn has passed seat 3 by
C24_Witness ==
    /\ game.status = "playing"
    /\ 3 \in game.deadPlayers
    /\ game.last.player = 2
    /\ game.currentPlayer = 0

\* C26: in every committed move the moving piece is neither a Flag nor a
\* Mine, and each Flag and each Mine stays on its cell until it is removed
\* from the board
C26_FlagsAndMinesStayPut ==
    [][board' # board =>
          /\ game'.last.piece.type \notin {Flag, Mine}
          /\ \A p \in Cells :
                board'[p].type \in {Flag, Mine} => board[p].id = board'[p].id]_vars

\* a Flag has been captured next to a Headquarters while the Mine and the
\* other Flags stand where they stood
C26_Witness ==
    /\ game.last.capturedPiece.type = Flag
    /\ board[<<0, 8>>].type = Mine
    /\ board[<<0, 9>>].type = Flag

\* C27: after a move by a piece has been committed its memory record holds
\* neither Mine nor Flag in possibleTypes
C27_MovedPieceIsNoMineNoFlag ==
    (game.status # "none" /\ game.last.piece # NoPiece /\ game.last.piece.id \in DOMAIN memories) =>
        memories[game.last.piece.id].possibleTypes \cap {Mine, Flag} = {}

\* C29: when a committed battle kills a Commander, the Flag of the seat that
\* owned it, if on the board, is revealed on the board that results; a
\* move in which no Commander dies reveals no Flag
C29_CommanderDeathRevealsFlag ==
    [][board' # board =>
          LET move == game'.last
              commanderDeath ==
                  move.capturedPiece # NoPiece /\ move.battleResult.details.isCommanderDeath
          IN  /\ commanderDeath =>
                    \A pc \in {move.piece, move.capturedPiece}, p \in Cells :
                        (pc.type = Commander /\ board'[p].type = Flag
                            /\ board'[p].player = pc.player) => board'[p].isRevealed
              /\ ~commanderDeath =>
                    \A p \in Cells :
                        (board'[p].type = Flag /\ board'[p].isRevealed) => board[p].isRevealed]_vars

\* C30: a piece whose isRevealed is true has it true on every later board
C30_RevealedStaysRevealed ==
    [][LET revealed == { board[p].id : p \in { c \in Cells : board[c].isRevealed } }
       IN  \A q \in Cells : board'[q].id \in revealed => board'[q].isRevealed]_vars

\* seat 0's Flag was revealed by the death of its Commander and is still
\* revealed after a later plain move
C30_Witness ==
    /\ game.status = "playing"
    /\ board[<<16, 7>>].type = Flag /\ board[<<16, 7>>].isRevealed
    /\ game.last.piece # NoPiece /\ game.last.capturedPiece = NoPiece

\* C34: whenever checkGameOver returns isOver = true with a winnerTeam, a
\* seat of the winning team is neither previously nor newly dead
C34_WinnerHasLiveSeat ==
    (game.status # "none" /\ "checked" \in DOMAIN game /\ game.checked
        /\ game.gameOverCheck.isOver) =>
        \E seat \in {game.gameOverCheck.winnerTeam, game.gameOverCheck.winnerTeam + 2} :
            seat \notin game.deadPlayers \cup game.gameOverCheck.newDeadPlayers

\* C33: after any sequence of processed battles the true type of every
\* piece still on the board is a member of its record's possibleTypes
C33_TrueTypeStaysPossible ==
    \A p \in Cells :
        (board[p] # NoPiece /\ board[p].id \in DOMAIN memories) =>
            board[p].type \in memories[board[p].id].possibleTypes

\* C40: whenever a committed move newly eliminates a seat, none of that
\* seat's pieces is on the board when the next move is chosen, in the
\* training loop as in the interactive loop
C40_DeadSeatLeavesTheBoard ==
    [][board' # board =>
          \A seat \in game'.deadPlayers \ game.deadPlayers :
              \A p \in Cells : board'[p].player # seat]_vars

C32_SearchLeavesCallerBoards ==
    [][sim'.done =>
          \E old \in {IF sim.done THEN sim.heap ELSE <<board>>} :
              /\ sim'.ref \notin DOMAIN old
              /\ \A r \in DOMAIN old : sim'.heap[r] = old[r]
              /\ sim'.heap[1] = (IF sim.done THEN sim.heap[1] ELSE board)]_vars

\* two plies deep, an attack simulated at each: the caller's board and the
\* two clones are three different boards
C32_Witness ==
    /\ sim.done /\ Len(sim.heap) = 3 /\ sim.ref = 3
    /\ sim.before = sim.heap[2] /\ board = sim.heap[3]
    /\ sim.before[sim.to] # NoPiece
    /\ sim.heap[1] # sim.heap[2] /\ sim.heap[2] # sim.heap[3]
    /\ Cardinality(occupiedCells(sim.heap[3])) < Cardinality(occupiedCells(sim.heap[1])) - 1

\* C38: an AI move chosen asynchronously is committed only if, at commit
\* time, the game is still in the playing phase, it is still that seat's turn
\* and the live board is the board the move was computed on
C38_AsyncMoveCommitsOnItsOwnState ==
    [][(call.op = "getBestMove" /\ call'.op # "getBestMove") =>
          /\ game.status = "playing"
          /\ game.currentPlayer = call.seat
          /\ ~isDeadPlayer(call.seat)
          /\ board = call.board]_vars

\* an awaited search has resolved to an attack and the attack has been
\* committed for the seat that asked for it
C38_Witness ==
    /\ game.loop = "interactive" /\ call = NoCall
    /\ game.last.player \in {1, 2, 3}
    /\ game.last.capturedPiece # NoPiece
    /\ game.turns = 2

\* C35: every move committed during play, by the human, by an AI seat or by
\* the training loop, moves a piece owned by the seat whose turn it is and
\* satisfies isValidMove on the board as it is at the moment of commit
C35_CommittedMoveIsLegalForTheTurn ==
    [][game'.turns # game.turns \/ board' # board =>
          /\ game'.last.player = game.currentPlayer
          /\ board[game'.last.from] = game'.last.piece
          /\ game'.last.piece.player = game.currentPlayer
          /\ isValidMove(board, game'.last.from, game'.last.to, game'.last.piece)]_vars

\* the training loop, the human and an AI seat have each committed a move
C35_Witness ==
    \/ game.loop = "training" /\ game.turns = 2 /\ game.last.capturedPiece # NoPiece
    \/ game.loop = "interactive" /\ game.turns = 2 /\ game.last.player = 0
          /\ game.last.capturedPiece = NoPiece /\ call = NoCall

\* C39: once seat 0 has been eliminated and the game is not over, the game
\* is ended by the 50th committed move at the latest, the move that
\* eliminated seat 0 counting as the first: the eliminating move leaves the
\* count at 1, every later committed move adds one to it, and no move leaves
\* the game in play with a count of 50
C39_EndedWithinFiftyMoves ==
    [][(game.loop = "interactive" /\ game'.turns = game.turns + 1
            /\ 0 \in game'.deadPlayers /\ game'.status = "playing") =>
          /\ game'.postPlayerDeathMoves =
                (IF 0 \in game.deadPlayers THEN game.postPlayerDeathMoves + 1 ELSE 1)
          /\ game'.postPlayerDeathMoves < 50]_vars

\* the 50th move after seat 0's death has been committed by an AI seat and
\* has ended a game that neither team had won
C39_Witness ==
    /\ game.loop = "interactive" /\ game.status = "ended"
    /\ game.deadPlayers = {0}
    /\ game.postPlayerDeathMoves = 50
    /\ game.turns >= 1 /\ game.last.player \in {1, 2, 3}

\* C37: runSingleGame always terminates: it commits at most maxTurnsPerGame
\* moves, and the iterations that pass over a dead seat or a seat with no
\* legal move do not go on for ever
C37_RunSingleGameTerminates ==
    /\ [](game.loop = "training" => game.turns <= MaxMoves)
    /\ (game.loop = "training") ~> (game.status = "ended")

\* a training game with a dead seat in the rotation has run to the limit of
\* committed moves and returned without a winner
C37_Witness ==
    /\ game.loop = "training" /\ game.status = "ended"
    /\ game.turns = MaxMoves /\ game.winnerTeam = -1
    /\ game.deadPlayers # {}

\* C36: progress in the interactive game: the turn never comes to rest on a
\* live seat that has no legal move. Seat 0's turn is passed on by nothing
\* but a move of seat 0, so whenever it is the turn of a live seat 0 during
\* play, seat 0 has a legal move
C36_TurnNeverRestsOnStuckSeat ==
    (game.status = "playing" /\ game.loop = "interactive"
        /\ game.currentPlayer = 0 /\ 0 \notin game.deadPlayers) =>
        hasLegalMove(board, 0)

====
